---- MODULE Spec2Model ----
(***************************************************************************)
(* Org chart core of sigma-org-chart: the tree utilities of                *)
(* utils/orgChartUtils.ts (tree builder, validator, categorizer, expand    *)
(* map) and the state the useOrgChart hook and the OrgChart component keep *)
(* on top of them.                                                         *)
(*                                                                         *)
(* A JavaScript string is a sequence of character codes, so that trim(),   *)
(* truthiness and localeCompare() are computed and not assumed.  null is   *)
(* the value Null, which is no string.                                     *)
(***************************************************************************)
EXTENDS Integers, Sequences, FiniteSets, TLC

VARIABLES users, pc, forest, cycles, validation, mapping, orgTree,
          expandState, lastToggled, toggleCount, expandDepth, filters, filterResult,
          focusedNodeId, datasetChanges, selectedNodeId, isKeyboardActive,
          timers, centerTimers, highlightedUserId, zoomLevel, panPosition,
          layoutMode, viewMode, cardSizeMode

vars == <<users, pc, forest, cycles, validation, mapping, orgTree,
          expandState, lastToggled, toggleCount, expandDepth, filters, filterResult,
          focusedNodeId, datasetChanges, selectedNodeId, isKeyboardActive,
          timers, centerTimers, highlightedUserId, zoomLevel, panPosition,
          layoutMode, viewMode, cardSizeMode>>

----------------------------------------------------------------------------
(* Bounds of the model *)

\* longest record list handed to the utilities
MaxUsers == 3
\* longest record list the mounted component is given
MaxViewUsers == 3
\* toggles applied to the expand map after mount
MaxToggles == 2
\* largest depth handed to expandToDepth
MaxDepth == 3
\* longest record list of the component whose filters are changed
MaxFilterUsers == 3
\* longest record list of the component whose dataset is replaced
MaxChartUsers == 2
\* replacements of the dataset of the mounted component
MaxDatasetChanges == 1
\* longest record list of the component that is navigated by the keyboard
MaxKeyUsers == 3
\* first-child timers (setTimeout 50 ms) pending at the same time
MaxTimers == 1
\* zoom steps taken from the default zoom level
MaxZoomSteps == 1

----------------------------------------------------------------------------
(* Strings *)

Null == <<-1>>
EmptyStr == <<>>
\* a whitespace-only string (one no-break space)
Blank == <<160>>
NameA == <<65>>
NameB == <<66>>
NameC == <<67>>
Nonexistent == <<78>>
\* organization units and offices: "Eng", "Sales", "NYC"
Eng == <<69, 110, 103>>
Sales == <<83, 97, 108, 101, 115>>
NYC == <<78, 89, 67>>

\* the full names a record may carry; Blank is a whitespace-only name
Names == {NameA, NameB, NameC, Blank}
\* the manager references a record may carry
Managers == Names \cup {EmptyStr, Nonexistent}

\* JavaScript truthiness of a string-or-null value
Truthy(s) == s # Null /\ s # EmptyStr

\* the white space and line terminator code units that trim() strips
IsSpace(c) == c \in {9, 10, 11, 12, 13, 32, 160}

\* collation weight of a code unit: white space sorts before the letters
Weight(c) == IF IsSpace(c) THEN 0 ELSE c

RECURSIVE TrimStart(_)
TrimStart(s) ==
  IF s = <<>> THEN s
  ELSE IF IsSpace(Head(s)) THEN TrimStart(Tail(s)) ELSE s

RECURSIVE TrimEnd(_)
TrimEnd(s) ==
  IF s = <<>> THEN s
  ELSE IF IsSpace(s[Len(s)]) THEN TrimEnd(SubSeq(s, 1, Len(s) - 1)) ELSE s

\* String.prototype.trim
Trim(s) == TrimEnd(TrimStart(s))

\* String.prototype.localeCompare on the model's alphabet: -1, 0 or 1
RECURSIVE localeCompare(_, _)
localeCompare(a, b) ==
  IF a = <<>> /\ b = <<>> THEN 0
  ELSE IF a = <<>> THEN -1
  ELSE IF b = <<>> THEN 1
  ELSE IF Weight(Head(a)) < Weight(Head(b)) THEN -1
  ELSE IF Weight(Head(a)) > Weight(Head(b)) THEN 1
  ELSE localeCompare(Tail(a), Tail(b))

----------------------------------------------------------------------------
(* Records *)

\* the organization units and offices a record may carry
OrgUnits == {EmptyStr, Eng, Sales}
Offices == {EmptyStr, NYC}

\* the fields of UserData the core reads; the other fields are payload
UserData ==
  [fullName : Names, manager : Managers, organizationUnit : OrgUnits, office : Offices]

\* records that carry no organization unit and no office
PlainUserData == {u \in UserData : u.organizationUnit = EmptyStr /\ u.office = EmptyStr}

\* the names of a record list, as a set (new Set(users.map(u => u.fullName)))
NameSet(us) == {us[i].fullName : i \in DOMAIN us}

DistinctNames(us) == \A i, j \in DOMAIN us : us[i].fullName = us[j].fullName => i = j

\* record lists of at most n records with pairwise distinct names
RecordLists(n) ==
  UNION {{us \in [1..k -> PlainUserData] : DistinctNames(us)} : k \in 0..n}

\* the names in ascending order, Blank aside
NameOrder == <<NameA, NameB, NameC, Blank>>

Min(a, b) == IF a < b THEN a ELSE b

\* record lists of at most n records named NameOrder[1], NameOrder[2], ... in
\* this order, over the records of the set R
OrderedLists(R, n) ==
  UNION {{us \in [1..k -> R] : \A i \in 1..k : us[i].fullName = NameOrder[i]}
           : k \in 0..Min(n, Len(NameOrder))}

\* Map lookup by name (userMap.get)
UserOf(us, name) == us[CHOOSE i \in DOMAIN us : us[i].fullName = name]

----------------------------------------------------------------------------
(* Tree builder: buildOrgChart *)

\* The object graph of OrgNode values: nodes maps an id to its node, a
\* children list holds the ids of the child nodes (references in the source),
\* rootNodes is the returned array.
\* The isExpanded field of OrgNode is written once (true) and never read, so
\* it is left out of the node record.
EmptyForest == [nodes |-> <<>>, rootNodes |-> <<>>]

\* first pass: one node per record, level 0, no children
CreateNodes(us) ==
  [id \in NameSet(us) |->
     LET user == UserOf(us, id)
     IN [user     |-> user,
         children |-> <<>>,
         id       |-> user.fullName,
         parentId |-> IF Truthy(user.manager) THEN user.manager ELSE Null,
         level    |-> 0]]

\* AttachNode with the root test reduced to "has no manager reference": a
\* node whose reference does not resolve is left out of rootNodes
AttachNode_DropDangling(f, id) ==
  LET node == f.nodes[id]
  IN IF Truthy(node.parentId)
     THEN IF node.parentId \in DOMAIN f.nodes
          THEN LET p      == node.parentId
                   pushed == [f.nodes EXCEPT ![p].children = Append(@, id)]
               IN [f EXCEPT !.nodes = [pushed EXCEPT ![id].level = pushed[p].level + 1]]
          ELSE f
     ELSE [f EXCEPT !.rootNodes = Append(@, id)]

\* the body of the second pass for one node
AttachNode(f, id) ==
  LET node == f.nodes[id]
  IN IF Truthy(node.parentId) /\ node.parentId \in DOMAIN f.nodes
     THEN LET p      == node.parentId
              pushed == [f.nodes EXCEPT ![p].children = Append(@, id)]
          IN [f EXCEPT !.nodes = [pushed EXCEPT ![id].level = pushed[p].level + 1]]
     ELSE [f EXCEPT !.rootNodes = Append(@, id)]

\* second pass: nodes.forEach in insertion order
RECURSIVE AttachAll(_, _)
AttachAll(f, order) ==
  IF order = <<>> THEN f
  ELSE AttachAll(AttachNode(f, Head(order)), Tail(order))

\* insertion of an id into a list sorted by localeCompare
RECURSIVE InsertSorted(_, _)
InsertSorted(sorted, id) ==
  IF sorted = <<>> THEN <<id>>
  ELSE IF localeCompare(id, Head(sorted)) < 0 THEN <<id>> \o sorted
  ELSE <<Head(sorted)>> \o InsertSorted(Tail(sorted), id)

\* a sort that leaves the list in the order of the pushes
SortByName_Unsorted(ids) == ids

\* Array.prototype.sort with (a, b) => a.fullName.localeCompare(b.fullName)
RECURSIVE SortByName(_)
SortByName(ids) ==
  IF ids = <<>> THEN <<>>
  ELSE InsertSorted(SortByName(SubSeq(ids, 1, Len(ids) - 1)), ids[Len(ids)])

\* sortChildren applied to each node of a list in turn
RECURSIVE SortEach(_, _)
\* sortChildren: sort the node's children, then recurse into them
RECURSIVE sortChildren(_, _)
sortChildren(nodes, id) ==
  LET sorted == [nodes EXCEPT ![id].children = SortByName(@)]
  IN SortEach(sorted, sorted[id].children)

SortEach(nodes, ids) ==
  IF ids = <<>> THEN nodes
  ELSE SortEach(sortChildren(nodes, Head(ids)), Tail(ids))

buildOrgChart(us) ==
  LET order    == [i \in DOMAIN us |-> us[i].fullName]
      attached == AttachAll([nodes |-> CreateNodes(us), rootNodes |-> <<>>], order)
  IN [attached EXCEPT !.nodes = SortEach(@, attached.rootNodes)]

----------------------------------------------------------------------------
(* Reading a forest *)

RECURSIVE SubtreeIds(_, _)
RECURSIVE SubtreesIds(_, _)
\* the ids of the nodes of the subtree of id, in pre-order
SubtreeIds(f, id) == <<id>> \o SubtreesIds(f, f.nodes[id].children)

SubtreesIds(f, ids) ==
  IF ids = <<>> THEN <<>>
  ELSE SubtreeIds(f, Head(ids)) \o SubtreesIds(f, Tail(ids))

\* the ids of the nodes reachable from the roots by following children
ForestIds(f) == SubtreesIds(f, f.rootNodes)

SeqToSet(s) == {s[i] : i \in DOMAIN s}

\* number of positions of seq holding x
Occurrences(s, x) == Cardinality({i \in DOMAIN s : s[i] = x})

----------------------------------------------------------------------------
(* Validator: detectCircularRefs, validateOrgData, categorizeMappedUsers *)

\* dfs of detectCircularRefs; st holds the visited set, the inStack set and
\* the cycles array, which the closure shares between calls, and walk, the
\* names in the order in which the walk enters them (visited.add)
RECURSIVE dfs(_, _, _)
\* dfs without the visited test: a record is walked again from each record
\* that refers to it
dfs_NoVisitedTest(us, st, userName) ==
  IF userName \in st.inStack
  THEN [st EXCEPT !.cycles = Append(@, userName)]
  ELSE LET entered == [st EXCEPT !.visited = @ \cup {userName},
                                 !.inStack = @ \cup {userName},
                                 !.walk = Append(@, userName)]
           user    == UserOf(us, userName)
           walked  == IF userName \in NameSet(us) /\ Truthy(user.manager)
                         /\ user.manager \in NameSet(us)
                      THEN dfs(us, entered, user.manager)
                      ELSE entered
       IN [walked EXCEPT !.inStack = @ \ {userName}]

dfs(us, st, userName) ==
  IF userName \in st.inStack
  THEN [st EXCEPT !.cycles = Append(@, userName)]
  ELSE IF userName \in st.visited
  THEN st
  ELSE LET entered == [st EXCEPT !.visited = @ \cup {userName},
                                 !.inStack = @ \cup {userName},
                                 !.walk = Append(@, userName)]
           user    == UserOf(us, userName)
           walked  == IF userName \in NameSet(us) /\ Truthy(user.manager)
                         /\ user.manager \in NameSet(us)
                      THEN dfs(us, entered, user.manager)
                      ELSE entered
       IN [walked EXCEPT !.inStack = @ \ {userName}]

\* users.forEach(user => { if (!visited.has(user.fullName)) dfs(user.fullName) })
RECURSIVE DfsAll(_, _, _)
DfsAll(us, st, i) ==
  IF i > Len(us) THEN st
  ELSE DfsAll(us,
              IF us[i].fullName \in st.visited THEN st ELSE dfs(us, st, us[i].fullName),
              i + 1)

\* the state of the closure when users.forEach returns
detectCircularRefsState(us) ==
  DfsAll(us, [visited |-> {}, inStack |-> {}, cycles |-> <<>>, walk |-> <<>>], 1)

detectCircularRefs(us) == detectCircularRefsState(us).cycles

CircularWarning == "circular reference(s)"
OrphanWarning == "employee(s) have managers not in the dataset"

EmptyValidation ==
  [users |-> <<>>, warnings |-> <<>>,
   stats |-> [totalUsers |-> 0, rootNodes |-> 0, orphanedNodes |-> 0, circularRefs |-> 0]]

\* user.manager && !userNames.has(user.manager)
IsOrphanForValidate(us, u) == Truthy(u.manager) /\ u.manager \notin NameSet(us)

\* IsRootForValidate counting only the records without a manager reference
IsRootForValidate_NoManagerOnly(us, u) == ~Truthy(u.manager)

\* !u.manager || !userNames.has(u.manager)
IsRootForValidate(us, u) == ~Truthy(u.manager) \/ u.manager \notin NameSet(us)

\* a warning is its count and the fixed text around it
validateOrgData(us) ==
  LET circularRefs  == detectCircularRefs(us)
      w1            == IF Len(circularRefs) > 0
                       THEN <<[count |-> Len(circularRefs), text |-> CircularWarning]>>
                       ELSE <<>>
      orphanedCount == Len(SelectSeq(us, LAMBDA u : IsOrphanForValidate(us, u)))
      w2            == IF orphanedCount > 0
                       THEN <<[count |-> orphanedCount, text |-> OrphanWarning]>>
                       ELSE <<>>
      rootCount     == Len(SelectSeq(us, LAMBDA u : IsRootForValidate(us, u)))
  IN [users    |-> us,
      warnings |-> w1 \o w2,
      stats    |-> [totalUsers    |-> Len(us),
                    rootNodes     |-> rootCount,
                    orphanedNodes |-> orphanedCount,
                    circularRefs  |-> Len(circularRefs)]]

\* IsTrueRoot without the trim() test
IsTrueRoot_NoTrim(u) == ~Truthy(u.manager)

\* !u.manager || u.manager.trim() === ''
IsTrueRoot(u) == ~Truthy(u.manager) \/ Trim(u.manager) = EmptyStr

\* u.manager && u.manager.trim() !== '' && !userNames.has(u.manager)
IsUnmapped(us, u) ==
  Truthy(u.manager) /\ Trim(u.manager) # EmptyStr /\ u.manager \notin NameSet(us)

\* childrenByManager.get(name) || []
childrenByManager(us, name) ==
  SelectSeq(us, LAMBDA u : Truthy(u.manager) /\ u.manager \in NameSet(us)
                           /\ u.manager = name)

\* the BFS loop of categorizeMappedUsers over a queue of records
RECURSIVE Bfs(_, _, _)
Bfs(us, queue, mappedSet) ==
  IF queue = <<>> THEN mappedSet
  ELSE LET user == Head(queue)
       IN IF user.fullName \in mappedSet
          THEN Bfs(us, Tail(queue), mappedSet)
          ELSE Bfs(us, Tail(queue) \o childrenByManager(us, user.fullName),
                   mappedSet \cup {user.fullName})

\* the number of passes of the while loop of categorizeMappedUsers
\* (queue.shift) until the queue is empty
RECURSIVE BfsPasses(_, _, _)
BfsPasses(us, queue, mappedSet) ==
  IF queue = <<>> THEN 0
  ELSE LET user == Head(queue)
       IN IF user.fullName \in mappedSet
          THEN 1 + BfsPasses(us, Tail(queue), mappedSet)
          ELSE 1 + BfsPasses(us, Tail(queue) \o childrenByManager(us, user.fullName),
                             mappedSet \cup {user.fullName})

EmptyMapping == [mappedUsers |-> <<>>, unmappedUsers |-> <<>>, trueRoots |-> <<>>]

\* categorizeMappedUsers without the final filter: every record is mapped
categorizeMappedUsers_AllMapped(us) ==
  [mappedUsers   |-> us,
   unmappedUsers |-> SelectSeq(us, LAMBDA u : IsUnmapped(us, u)),
   trueRoots     |-> SelectSeq(us, IsTrueRoot)]

categorizeMappedUsers(us) ==
  LET trueRoots == SelectSeq(us, IsTrueRoot)
      unmapped  == SelectSeq(us, LAMBDA u : IsUnmapped(us, u))
      mappedSet == Bfs(us, trueRoots, {})
  IN [mappedUsers   |-> SelectSeq(us, LAMBDA u : u.fullName \in mappedSet),
      unmappedUsers |-> unmapped,
      trueRoots     |-> trueRoots]

----------------------------------------------------------------------------
(* Expand map *)

\* the expand map is a function from the ids that have an entry to BOOLEAN
EmptyExpandState == <<>>

\* expandState[id] !== false
IsExpanded(m, id) == ~(id \in DOMAIN m /\ m[id] = FALSE)

\* toggleNodeExpansion that tests the raw entry instead of "!== false": an
\* absent entry is read as falsy and written as true
toggleNodeExpansion_AbsentIsCollapsed(m, nodeId) ==
  [id \in DOMAIN m \cup {nodeId} |->
     IF id = nodeId THEN (IF nodeId \in DOMAIN m /\ m[nodeId] THEN FALSE ELSE TRUE)
     ELSE m[id]]

\* toggleNodeExpansion without the spread of the old map: only the toggled
\* entry survives
toggleNodeExpansion_NoSpread(m, nodeId) ==
  [id \in {nodeId} |-> IF IsExpanded(m, nodeId) THEN FALSE ELSE TRUE]

toggleNodeExpansion(m, nodeId) ==
  [id \in DOMAIN m \cup {nodeId} |->
     IF id = nodeId THEN (IF IsExpanded(m, nodeId) THEN FALSE ELSE TRUE)
     ELSE m[id]]

RECURSIVE setExpandedToDepth(_, _, _, _, _)
RECURSIVE SetExpandedEach(_, _, _, _, _)
\* setExpandedToDepth of expandToDepth: state[node.id] = currentLevel < depth
setExpandedToDepth(f, depth, state, id, currentLevel) ==
  LET set == [x \in DOMAIN state \cup {id} |->
                IF x = id THEN currentLevel < depth ELSE state[x]]
  IN SetExpandedEach(f, depth, set, f.nodes[id].children, currentLevel + 1)

SetExpandedEach(f, depth, state, ids, level) ==
  IF ids = <<>> THEN state
  ELSE SetExpandedEach(f, depth, setExpandedToDepth(f, depth, state, Head(ids), level),
                       Tail(ids), level)

\* expandToDepth that tests currentLevel <= depth
expandToDepth_Inclusive(f, depth) ==
  SetExpandedEach(f, depth + 1, EmptyExpandState, f.rootNodes, 0)

expandToDepth(f, depth) == SetExpandedEach(f, depth, EmptyExpandState, f.rootNodes, 0)

RECURSIVE setExpanded(_, _, _)
RECURSIVE SetExpandedAll(_, _, _)
\* setExpanded of expandAll: state[node.id] = true
setExpanded(f, state, id) ==
  LET set == [x \in DOMAIN state \cup {id} |-> IF x = id THEN TRUE ELSE state[x]]
  IN SetExpandedAll(f, set, f.nodes[id].children)

SetExpandedAll(f, state, ids) ==
  IF ids = <<>> THEN state
  ELSE SetExpandedAll(f, setExpanded(f, state, Head(ids)), Tail(ids))

\* expandAll that does not descend into the children
expandAll_RootsOnly(f) == [id \in SeqToSet(f.rootNodes) |-> TRUE]

expandAll(f) == SetExpandedAll(f, EmptyExpandState, f.rootNodes)

RECURSIVE setCollapsed(_, _, _, _)
RECURSIVE SetCollapsedEach(_, _, _, _)
\* setCollapsed of collapseAll: state[node.id] = level === 0
setCollapsed(f, state, id, level) ==
  LET set == [x \in DOMAIN state \cup {id} |-> IF x = id THEN level = 0 ELSE state[x]]
  IN SetCollapsedEach(f, set, f.nodes[id].children, level + 1)

SetCollapsedEach(f, state, ids, level) ==
  IF ids = <<>> THEN state
  ELSE SetCollapsedEach(f, setCollapsed(f, state, Head(ids), level), Tail(ids), level)

\* collapseAll that collapses the root level too
collapseAll_RootsToo(f) == [id \in SeqToSet(ForestIds(f)) |-> FALSE]

collapseAll(f) == SetCollapsedEach(f, EmptyExpandState, f.rootNodes, 0)

----------------------------------------------------------------------------
(* Queries on a forest and an expand map *)

RECURSIVE traverse(_, _, _)
RECURSIVE TraverseEach(_, _, _)
\* traverse of getVisibleNodes: push the node, then its children if expanded
traverse(f, state, id) ==
  <<id>> \o (IF IsExpanded(state, id)
             THEN TraverseEach(f, state, f.nodes[id].children)
             ELSE <<>>)

TraverseEach(f, state, ids) ==
  IF ids = <<>> THEN <<>>
  ELSE traverse(f, state, Head(ids)) \o TraverseEach(f, state, Tail(ids))

\* getVisibleNodes that descends into the children of collapsed nodes too
getVisibleNodes_IgnoreExpandState(f, roots, state) == SubtreesIds(f, roots)

\* getVisibleNodes(roots, expandState), as the list of the ids of the nodes
getVisibleNodes(f, roots, state) == TraverseEach(f, state, roots)

\* getDescendantCount without the recursion: the direct children only
getDescendantCount_DirectChildren(f, id) == Len(f.nodes[id].children)

\* getVisibleDescendantCount without the test of the node's own entry
getVisibleDescendantCount_OwnEntryIgnored(f, state, id) ==
  Len(TraverseEach(f, state, f.nodes[id].children))

RECURSIVE getDescendantCount(_, _)
RECURSIVE SumDescendants(_, _)
\* node.children.reduce((count, child) => count + 1 + getDescendantCount(child), 0)
getDescendantCount(f, id) == SumDescendants(f, f.nodes[id].children)

SumDescendants(f, ids) ==
  IF ids = <<>> THEN 0
  ELSE 1 + getDescendantCount(f, Head(ids)) + SumDescendants(f, Tail(ids))

RECURSIVE getVisibleDescendantCount(_, _, _)
RECURSIVE SumVisibleDescendants(_, _, _)
getVisibleDescendantCount(f, state, id) ==
  IF ~IsExpanded(state, id) THEN 0
  ELSE SumVisibleDescendants(f, state, f.nodes[id].children)

SumVisibleDescendants(f, state, ids) ==
  IF ids = <<>> THEN 0
  ELSE 1 + getVisibleDescendantCount(f, state, Head(ids))
         + SumVisibleDescendants(f, state, Tail(ids))

RECURSIVE findNodeInTree(_, _, _)
RECURSIVE FindInEach(_, _, _)
\* findNodeInTree: the id of the first node found with this id, or Null
findNodeInTree(f, id, nodeId) ==
  IF f.nodes[id].id = nodeId THEN id
  ELSE FindInEach(f, f.nodes[id].children, nodeId)

\* for (const n of nodes) { const found = findNodeInTree(n, nodeId); if (found) return found }
FindInEach(f, ids, nodeId) ==
  IF ids = <<>> THEN Null
  ELSE LET found == findNodeInTree(f, Head(ids), nodeId)
       IN IF found # Null THEN found ELSE FindInEach(f, Tail(ids), nodeId)

\* findNode(roots, nodeId), and findNode of the hook: the id of the node, or Null
findNode(f, nodeId) == FindInEach(f, f.rootNodes, nodeId)

RECURSIVE findPathToNode(_, _, _, _)
RECURSIVE FindPathInEach(_, _, _, _)
\* findPathToNode that hands currentPath, not newPath, down to the children
findPathToNode_DropsAncestors(f, id, nodeId, currentPath) ==
  LET newPath == Append(currentPath, id)
  IN IF f.nodes[id].id = nodeId THEN [found |-> TRUE, path |-> newPath]
     ELSE FindPathInEach(f, f.nodes[id].children, nodeId, currentPath)

\* findPathToNode: found with the path of ids, or not found (null)
findPathToNode(f, id, nodeId, currentPath) ==
  LET newPath == Append(currentPath, id)
  IN IF f.nodes[id].id = nodeId THEN [found |-> TRUE, path |-> newPath]
     ELSE FindPathInEach(f, f.nodes[id].children, nodeId, newPath)

\* for (const child of ...) { const foundPath = findPathToNode(...); if (foundPath) return }
FindPathInEach(f, ids, nodeId, path) ==
  IF ids = <<>> THEN [found |-> FALSE, path |-> <<>>]
  ELSE LET r == findPathToNode(f, Head(ids), nodeId, path)
       IN IF r.found THEN r ELSE FindPathInEach(f, Tail(ids), nodeId, path)

\* getNodePath that answers a miss with the first root
getNodePath_RootOnMiss(f, nodeId) ==
  LET r == FindPathInEach(f, f.rootNodes, nodeId, <<>>)
  IN IF r.found \/ f.rootNodes = <<>> THEN r.path ELSE <<Head(f.rootNodes)>>

\* getNodePath(roots, nodeId): the path of ids, [] when no root has one
getNodePath(f, nodeId) == FindPathInEach(f, f.rootNodes, nodeId, <<>>).path

\* hasChildren of the hook
hasChildren(f, nodeId) ==
  LET node == FindInEach(f, f.rootNodes, nodeId)
  IN IF node # Null THEN Len(f.nodes[node].children) > 0 ELSE FALSE

\* getDirectChildCount of the hook
getDirectChildCount(f, nodeId) ==
  LET node == FindInEach(f, f.rootNodes, nodeId)
  IN IF node # Null THEN Len(f.nodes[node].children) ELSE 0

\* getNodeDescendantCount of the hook
getNodeDescendantCount(f, nodeId) ==
  LET node == FindInEach(f, f.rootNodes, nodeId)
  IN IF node # Null THEN getDescendantCount(f, node) ELSE 0

\* getNodeVisibleDescendantCount of the hook
getNodeVisibleDescendantCount(f, state, nodeId) ==
  LET node == FindInEach(f, f.rootNodes, nodeId)
  IN IF node # Null THEN getVisibleDescendantCount(f, state, node) ELSE 0

----------------------------------------------------------------------------
(* Filter: nodeMatchesFilter, filterOrgTree *)

\* maxLevel: null of FilterCriteria, which is no level
NoMaxLevel == -1

\* the criteria of a panel with nothing selected
EmptyFilters == [orgUnits |-> <<>>, offices |-> <<>>, maxLevel |-> NoMaxLevel]

\* the filter result before one has been computed
EmptyFilterResult == [filteredTree |-> EmptyForest, matchCount |-> 0, totalCount |-> 0]

\* orgUnits.length === 0 && offices.length === 0 && maxLevel === null
NoFilterActive(c) ==
  Len(c.orgUnits) = 0 /\ Len(c.offices) = 0 /\ c.maxLevel = NoMaxLevel

\* nodeMatchesFilter without the truthiness tests: a node without organization
\* unit or office passes the list criteria
nodeMatchesFilter_FalsyPasses(node, c) ==
  IF NoFilterActive(c) THEN TRUE
  ELSE IF c.maxLevel # NoMaxLevel /\ node.level >= c.maxLevel THEN FALSE
  ELSE IF /\ Len(c.orgUnits) > 0
          /\ Truthy(node.user.organizationUnit)
          /\ node.user.organizationUnit \notin SeqToSet(c.orgUnits) THEN FALSE
  ELSE IF /\ Len(c.offices) > 0
          /\ Truthy(node.user.office)
          /\ node.user.office \notin SeqToSet(c.offices) THEN FALSE
  ELSE TRUE

nodeMatchesFilter(node, c) ==
  IF NoFilterActive(c) THEN TRUE
  ELSE IF c.maxLevel # NoMaxLevel /\ node.level >= c.maxLevel THEN FALSE
  ELSE IF /\ Len(c.orgUnits) > 0
          /\ \/ ~Truthy(node.user.organizationUnit)
             \/ node.user.organizationUnit \notin SeqToSet(c.orgUnits) THEN FALSE
  ELSE IF /\ Len(c.offices) > 0
          /\ \/ ~Truthy(node.user.office)
             \/ node.user.office \notin SeqToSet(c.offices) THEN FALSE
  ELSE TRUE

\* countNodes without the recursion: the roots only
countNodes_RootsOnly(f, ids) == Len(ids)

\* countNodes of the pass-through branch of filterOrgTree
RECURSIVE countNodes(_, _)
countNodes(f, ids) ==
  IF ids = <<>> THEN 0
  ELSE 1 + countNodes(f, f.nodes[Head(ids)].children) + countNodes(f, Tail(ids))

RECURSIVE filterNode(_, _, _, _)
RECURSIVE FilterEach(_, _, _, _, _)
\* filterNode that keeps a node only when it matches itself
filterNode_MatchOnly(f, c, acc, id) ==
  LET node == f.nodes[id]
      matches == nodeMatchesFilter(node, c)
      counted == [acc EXCEPT !.totalCount = @ + 1,
                             !.matchCount = IF matches THEN @ + 1 ELSE @]
      below == FilterEach(f, c, counted, node.children, <<>>)
  IN IF matches
     THEN [acc |-> [below.acc EXCEPT !.nodes =
                      [x \in DOMAIN below.acc.nodes \cup {id} |->
                         IF x = id THEN [node EXCEPT !.children = below.kept]
                         ELSE below.acc.nodes[x]]],
           kept |-> TRUE]
     ELSE [acc |-> below.acc, kept |-> FALSE]

\* filterNode that keeps a node when it matches or has children at all
\* (node.children instead of filteredChildren)
filterNode_KeepsParents(f, c, acc, id) ==
  LET node == f.nodes[id]
      matches == nodeMatchesFilter(node, c)
      counted == [acc EXCEPT !.totalCount = @ + 1,
                             !.matchCount = IF matches THEN @ + 1 ELSE @]
      below == FilterEach(f, c, counted, node.children, <<>>)
      filteredChildren == below.kept
  IN IF matches \/ Len(node.children) > 0
     THEN [acc |-> [below.acc EXCEPT !.nodes =
                      [x \in DOMAIN below.acc.nodes \cup {id} |->
                         IF x = id THEN [node EXCEPT !.children = filteredChildren]
                         ELSE below.acc.nodes[x]]],
           kept |-> TRUE]
     ELSE [acc |-> below.acc, kept |-> FALSE]

\* filterNode of filterOrgTree.  acc holds the copies made so far and the two
\* counters; the result says whether the node was kept (a copy) or null
filterNode(f, c, acc, id) ==
  LET node == f.nodes[id]
      matches == nodeMatchesFilter(node, c)
      counted == [acc EXCEPT !.totalCount = @ + 1,
                             !.matchCount = IF matches THEN @ + 1 ELSE @]
      below == FilterEach(f, c, counted, node.children, <<>>)
      filteredChildren == below.kept
  IN IF matches \/ Len(filteredChildren) > 0
     THEN [acc |-> [below.acc EXCEPT !.nodes =
                      [x \in DOMAIN below.acc.nodes \cup {id} |->
                         IF x = id THEN [node EXCEPT !.children = filteredChildren]
                         ELSE below.acc.nodes[x]]],
           kept |-> TRUE]
     ELSE [acc |-> below.acc, kept |-> FALSE]

\* for (const child of ...) { const filtered = filterNode(child); if (filtered) push }
FilterEach(f, c, acc, ids, kept) ==
  IF ids = <<>> THEN [acc |-> acc, kept |-> kept]
  ELSE LET r == filterNode(f, c, acc, Head(ids))
       IN FilterEach(f, c, r.acc, Tail(ids),
                     IF r.kept THEN Append(kept, Head(ids)) ELSE kept)

\* filterOrgTree that counts a node only when it is kept
filterOrgTree_CountsKept(f, c) ==
  LET r == FilterEach(f, c, [nodes |-> <<>>, matchCount |-> 0, totalCount |-> 0],
                      f.rootNodes, <<>>)
      filteredTree == [nodes |-> r.acc.nodes, rootNodes |-> r.kept]
  IN [filteredTree |-> filteredTree,
      matchCount |-> r.acc.matchCount,
      totalCount |-> Len(ForestIds(filteredTree))]

filterOrgTree(f, c) ==
  IF NoFilterActive(c)
  THEN LET totalCount == countNodes(f, f.rootNodes)
       IN [filteredTree |-> f, matchCount |-> totalCount, totalCount |-> totalCount]
  ELSE LET r == FilterEach(f, c, [nodes |-> <<>>, matchCount |-> 0, totalCount |-> 0],
                           f.rootNodes, <<>>)
       IN [filteredTree |-> [nodes |-> r.acc.nodes, rootNodes |-> r.kept],
           matchCount |-> r.acc.matchCount,
           totalCount |-> r.acc.totalCount]

\* the nodes of the input after a filterOrgTree that writes the filtered
\* children into the nodes it keeps instead of copying them
NodesAfterFilter_InPlace(f, c) ==
  LET out == filterOrgTree(f, c).filteredTree
  IN [id \in DOMAIN f.nodes |->
        IF id \in DOMAIN out.nodes THEN out.nodes[id] ELSE f.nodes[id]]

\* the nodes of the input after filterOrgTree(f, c): filterNode writes only to
\* the copies { ...node, children: filteredChildren } and to its own arrays
NodesAfterFilter(f, c) == f.nodes

\* doesNodeMatchFilter: nodeMatchesFilter, exported
doesNodeMatchFilter(node, c) == nodeMatchesFilter(node, c)

----------------------------------------------------------------------------
(* The OrgChart component and the useOrgChart hook *)

\* useState(70) of zoomLevel, and the value handleFullReset sets
DefaultZoom == 70
\* zoomStep
ZoomStep == 10
\* useState({ x: 0, y: 0 }) of panPosition
Origin == [x |-> 0, y |-> 0]

\* initialExpandDepth = 1, the default of the OrgChart props
InitialExpandDepth == 1

\* the forest the component renders: useOrgChart(mappedUsers).orgTree
RenderedTree(us) == buildOrgChart(categorizeMappedUsers(us).mappedUsers)

\* ids a caller may hand to toggleExpansion: the names and a stale id
ToggleIds == Names \cup {Nonexistent}

----------------------------------------------------------------------------
(* Specification Spec: each utility applied to a drawn record list *)

Init ==
  /\ users \in RecordLists(MaxUsers)
  /\ pc = "ready"
  /\ forest = EmptyForest
  /\ cycles = <<>>
  /\ validation = EmptyValidation
  /\ mapping = EmptyMapping
  /\ orgTree = EmptyForest
  /\ expandState = EmptyExpandState
  /\ lastToggled = Null
  /\ toggleCount = 0
  /\ expandDepth = InitialExpandDepth
  /\ filters = EmptyFilters
  /\ filterResult = EmptyFilterResult
  /\ focusedNodeId = Null
  /\ datasetChanges = 0
  /\ selectedNodeId = Null
  /\ isKeyboardActive = FALSE
  /\ timers = <<>>
  /\ centerTimers = <<>>
  /\ highlightedUserId = Null
  /\ zoomLevel = DefaultZoom
  /\ panPosition = Origin
  /\ layoutMode = "tree"
  /\ viewMode = "chart"
  /\ cardSizeMode = "standard"

BuildOrgChart ==
  /\ pc = "ready"
  /\ forest' = buildOrgChart(users)
  /\ pc' = "buildOrgChart"
  /\ UNCHANGED <<users, cycles, validation, mapping, orgTree, expandState,
                 lastToggled, toggleCount, expandDepth, filters, filterResult,
                 focusedNodeId, datasetChanges,
                 selectedNodeId, isKeyboardActive, timers, centerTimers,
                 highlightedUserId, zoomLevel, panPosition, layoutMode,
                 viewMode, cardSizeMode>>

DetectCircularRefs ==
  /\ pc = "ready"
  /\ cycles' = detectCircularRefs(users)
  /\ pc' = "detectCircularRefs"
  /\ UNCHANGED <<users, forest, validation, mapping, orgTree, expandState,
                 lastToggled, toggleCount, expandDepth, filters, filterResult,
                 focusedNodeId, datasetChanges,
                 selectedNodeId, isKeyboardActive, timers, centerTimers,
                 highlightedUserId, zoomLevel, panPosition, layoutMode,
                 viewMode, cardSizeMode>>

ValidateOrgData ==
  /\ pc = "ready"
  /\ validation' = validateOrgData(users)
  /\ pc' = "validateOrgData"
  /\ UNCHANGED <<users, forest, cycles, mapping, orgTree, expandState,
                 lastToggled, toggleCount, expandDepth, filters, filterResult,
                 focusedNodeId, datasetChanges,
                 selectedNodeId, isKeyboardActive, timers, centerTimers,
                 highlightedUserId, zoomLevel, panPosition, layoutMode,
                 viewMode, cardSizeMode>>

CategorizeMappedUsers ==
  /\ pc = "ready"
  /\ mapping' = categorizeMappedUsers(users)
  /\ pc' = "categorizeMappedUsers"
  /\ UNCHANGED <<users, forest, cycles, validation, orgTree, expandState,
                 lastToggled, toggleCount, expandDepth, filters, filterResult,
                 focusedNodeId, datasetChanges,
                 selectedNodeId, isKeyboardActive, timers, centerTimers,
                 highlightedUserId, zoomLevel, panPosition, layoutMode,
                 viewMode, cardSizeMode>>

\* first render of OrgChart: categorize, build the tree of the mapped users,
\* initialise the expand map
RenderOrgChart ==
  /\ pc = "ready"
  /\ mapping' = categorizeMappedUsers(users)
  /\ orgTree' = RenderedTree(users)
  /\ expandState' = expandToDepth(RenderedTree(users), InitialExpandDepth)
  /\ pc' = "rendered"
  /\ UNCHANGED <<users, forest, cycles, validation, lastToggled, toggleCount,
                 expandDepth, filters, filterResult,
                 focusedNodeId, datasetChanges,
                 selectedNodeId, isKeyboardActive, timers, centerTimers,
                 highlightedUserId, zoomLevel, panPosition, layoutMode,
                 viewMode, cardSizeMode>>

\* expandToDepth(buildOrgChart(users), d)
ExpandToDepth(d) ==
  /\ pc = "ready"
  /\ forest' = buildOrgChart(users)
  /\ expandState' = expandToDepth(forest', d)
  /\ expandDepth' = d
  /\ pc' = "expandToDepth"
  /\ UNCHANGED <<users, cycles, validation, mapping, orgTree, lastToggled,
                 toggleCount, filters, filterResult,
                 focusedNodeId, datasetChanges,
                 selectedNodeId, isKeyboardActive, timers, centerTimers,
                 highlightedUserId, zoomLevel, panPosition, layoutMode,
                 viewMode, cardSizeMode>>

\* expandAll(buildOrgChart(users))
ExpandAll ==
  /\ pc = "ready"
  /\ forest' = buildOrgChart(users)
  /\ expandState' = expandAll(forest')
  /\ pc' = "expandAll"
  /\ UNCHANGED <<users, cycles, validation, mapping, orgTree, lastToggled,
                 toggleCount, expandDepth, filters, filterResult,
                 focusedNodeId, datasetChanges,
                 selectedNodeId, isKeyboardActive, timers, centerTimers,
                 highlightedUserId, zoomLevel, panPosition, layoutMode,
                 viewMode, cardSizeMode>>

\* collapseAll(buildOrgChart(users))
CollapseAll ==
  /\ pc = "ready"
  /\ forest' = buildOrgChart(users)
  /\ expandState' = collapseAll(forest')
  /\ pc' = "collapseAll"
  /\ UNCHANGED <<users, cycles, validation, mapping, orgTree, lastToggled,
                 toggleCount, expandDepth, filters, filterResult,
                 focusedNodeId, datasetChanges,
                 selectedNodeId, isKeyboardActive, timers, centerTimers,
                 highlightedUserId, zoomLevel, panPosition, layoutMode,
                 viewMode, cardSizeMode>>

Next ==
  \/ BuildOrgChart
  \/ DetectCircularRefs
  \/ ValidateOrgData
  \/ CategorizeMappedUsers
  \/ RenderOrgChart
  \/ \E d \in 0..MaxDepth : ExpandToDepth(d)
  \/ ExpandAll
  \/ CollapseAll

Spec == Init /\ [][Next]_vars

----------------------------------------------------------------------------
(* Specification SpecView: the mounted component and its expand map *)

InitView ==
  /\ users \in OrderedLists(PlainUserData, MaxViewUsers)
  /\ pc = "rendered"
  /\ forest = EmptyForest
  /\ cycles = <<>>
  /\ validation = EmptyValidation
  /\ mapping = categorizeMappedUsers(users)
  /\ orgTree = RenderedTree(users)
  /\ expandState = expandToDepth(RenderedTree(users), InitialExpandDepth)
  /\ lastToggled = Null
  /\ toggleCount = 0
  /\ expandDepth = InitialExpandDepth
  /\ filters = EmptyFilters
  /\ filterResult = EmptyFilterResult
  /\ focusedNodeId = Null
  /\ datasetChanges = 0
  /\ selectedNodeId = Null
  /\ isKeyboardActive = FALSE
  /\ timers = <<>>
  /\ centerTimers = <<>>
  /\ highlightedUserId = Null
  /\ zoomLevel = DefaultZoom
  /\ panPosition = Origin
  /\ layoutMode = "tree"
  /\ viewMode = "chart"
  /\ cardSizeMode = "standard"

\* toggleExpansion(nodeId): setExpandState(s => toggleNodeExpansion(s, nodeId))
ToggleExpansion(nodeId) ==
  /\ pc = "rendered"
  /\ toggleCount < MaxToggles
  /\ expandState' = toggleNodeExpansion(expandState, nodeId)
  /\ lastToggled' = nodeId
  /\ toggleCount' = toggleCount + 1
  /\ UNCHANGED <<users, pc, forest, cycles, validation, mapping, orgTree,
                 expandDepth, filters, filterResult,
                 focusedNodeId, datasetChanges,
                 selectedNodeId, isKeyboardActive, timers, centerTimers,
                 highlightedUserId, zoomLevel, panPosition, layoutMode,
                 viewMode, cardSizeMode>>

\* expandAllNodes(): setExpandState(expandAll(orgTree))
ExpandAllNodes ==
  /\ pc = "rendered"
  /\ expandState' = expandAll(orgTree)
  /\ UNCHANGED <<users, pc, forest, cycles, validation, mapping, orgTree,
                 lastToggled, toggleCount, expandDepth, filters, filterResult,
                 focusedNodeId, datasetChanges,
                 selectedNodeId, isKeyboardActive, timers, centerTimers,
                 highlightedUserId, zoomLevel, panPosition, layoutMode,
                 viewMode, cardSizeMode>>

\* collapseAllNodes(): setExpandState(collapseAll(orgTree))
CollapseAllNodes ==
  /\ pc = "rendered"
  /\ expandState' = collapseAll(orgTree)
  /\ UNCHANGED <<users, pc, forest, cycles, validation, mapping, orgTree,
                 lastToggled, toggleCount, expandDepth, filters, filterResult,
                 focusedNodeId, datasetChanges,
                 selectedNodeId, isKeyboardActive, timers, centerTimers,
                 highlightedUserId, zoomLevel, panPosition, layoutMode,
                 viewMode, cardSizeMode>>

\* resetToDefaultExpand(): setExpandState(expandToDepth(orgTree, initialExpandDepth))
ResetToDefaultExpand ==
  /\ pc = "rendered"
  /\ expandState' = expandToDepth(orgTree, expandDepth)
  /\ UNCHANGED <<users, pc, forest, cycles, validation, mapping, orgTree,
                 lastToggled, toggleCount, expandDepth, filters, filterResult,
                 focusedNodeId, datasetChanges,
                 selectedNodeId, isKeyboardActive, timers, centerTimers,
                 highlightedUserId, zoomLevel, panPosition, layoutMode,
                 viewMode, cardSizeMode>>

NextView ==
  \/ \E nodeId \in ToggleIds : ToggleExpansion(nodeId)
  \/ ExpandAllNodes
  \/ CollapseAllNodes
  \/ ResetToDefaultExpand

SpecView == InitView /\ [][NextView]_vars

----------------------------------------------------------------------------
(* Specification SpecFilter: filterOrgTree applied to a drawn forest *)

\* the largest maxLevel the panel offers: Math.min(maxAvailableLevel, 5) on
\* the forests of the model
MaxLevelChoice == 2

\* records of the filtered lists: an organization unit and an office each,
\* possibly empty, and a manager reference that is empty or a name
FilterUserData ==
  {u \in UserData :
     /\ u.manager \in {EmptyStr, NameA, NameB, NameC}
     /\ <<u.organizationUnit, u.office>> \in
          {<<Eng, NYC>>, <<Sales, EmptyStr>>, <<EmptyStr, NYC>>}}

\* the criteria handed to filterOrgTree
FilterChoices ==
  [orgUnits : {<<>>, <<Eng>>, <<Eng, Sales>>},
   offices : {<<>>, <<NYC>>},
   maxLevel : {NoMaxLevel} \cup 1..MaxLevelChoice]

InitFilter ==
  /\ users \in OrderedLists(FilterUserData, MaxFilterUsers)
  /\ pc = "ready"
  /\ forest = EmptyForest
  /\ cycles = <<>>
  /\ validation = EmptyValidation
  /\ mapping = EmptyMapping
  /\ orgTree = EmptyForest
  /\ expandState = EmptyExpandState
  /\ lastToggled = Null
  /\ toggleCount = 0
  /\ expandDepth = InitialExpandDepth
  /\ filters = EmptyFilters
  /\ filterResult = EmptyFilterResult
  /\ focusedNodeId = Null
  /\ datasetChanges = 0
  /\ selectedNodeId = Null
  /\ isKeyboardActive = FALSE
  /\ timers = <<>>
  /\ centerTimers = <<>>
  /\ highlightedUserId = Null
  /\ zoomLevel = DefaultZoom
  /\ panPosition = Origin
  /\ layoutMode = "tree"
  /\ viewMode = "chart"
  /\ cardSizeMode = "standard"

\* filterOrgTree(buildOrgChart(users), c)
FilterOrgTree(c) ==
  /\ pc = "ready"
  /\ LET built == buildOrgChart(users)
     IN /\ forest' = [built EXCEPT !.nodes = NodesAfterFilter(built, c)]
        /\ filterResult' = filterOrgTree(built, c)
  /\ filters' = c
  /\ pc' = "filterOrgTree"
  /\ UNCHANGED <<users, cycles, validation, mapping, orgTree, expandState,
                 lastToggled, toggleCount, expandDepth,
                 focusedNodeId, datasetChanges,
                 selectedNodeId, isKeyboardActive, timers, centerTimers,
                 highlightedUserId, zoomLevel, panPosition, layoutMode,
                 viewMode, cardSizeMode>>

NextFilter == \E c \in FilterChoices : FilterOrgTree(c)

SpecFilter == InitFilter /\ [][NextFilter]_vars

----------------------------------------------------------------------------
(* Specification SpecChart: the mounted OrgChart with focus, filters and a *)
(* dataset that is replaced                                                *)

\* focusedNode = focusedNodeId ? findNode(focusedNodeId) : null
focusedNode(tree, focusId) ==
  IF Truthy(focusId) THEN findNode(tree, focusId) ELSE Null

\* baseNodesToRender that never narrows to the focused node
baseNodesToRender_IgnoresFocus(tree, focusId) == tree.rootNodes

\* baseNodesToRender = focusedNode ? [focusedNode] : orgTree, which is also
\* the orgTree handed to useKeyboardNavigation
baseNodesToRender(tree, focusId) ==
  IF focusedNode(tree, focusId) # Null THEN <<focusedNode(tree, focusId)>>
  ELSE tree.rootNodes

\* the active forest: the nodes of the full forest under the base roots
ActiveForest(tree, focusId) ==
  [nodes |-> tree.nodes, rootNodes |-> baseNodesToRender(tree, focusId)]

\* one render of the filter memo: filterOrgTree(baseNodesToRender, filters),
\* with the full forest as the call leaves it
RenderFilter(tree, focusId, c) ==
  [orgTree |-> [tree EXCEPT !.nodes = NodesAfterFilter(ActiveForest(tree, focusId), c)],
   filterResult |-> filterOrgTree(ActiveForest(tree, focusId), c)]

\* records of the replaced datasets: the manager is empty or one of two names
ChartUserData == {u \in PlainUserData : u.manager \in {EmptyStr, NameA, NameB}}

\* the record lists the component is rendered with: App mounts OrgChart only
\* when users.length > 0
ChartLists == OrderedLists(ChartUserData, MaxChartUsers) \ {<<>>}

\* the criteria the panel sets on plain records: a maximal level or none
ChartFilterChoices ==
  {c \in FilterChoices : c.orgUnits = <<>> /\ c.offices = <<>>}

\* first render of the component; the effect of the hook is still to run
InitChart ==
  /\ users \in ChartLists
  /\ pc = "effectPending"
  /\ forest = EmptyForest
  /\ cycles = <<>>
  /\ validation = EmptyValidation
  /\ mapping = categorizeMappedUsers(users)
  /\ orgTree = RenderedTree(users)
  /\ expandState = expandToDepth(RenderedTree(users), InitialExpandDepth)
  /\ lastToggled = Null
  /\ toggleCount = 0
  /\ expandDepth = InitialExpandDepth
  /\ filters = EmptyFilters
  /\ filterResult = filterOrgTree(RenderedTree(users), EmptyFilters)
  /\ focusedNodeId = Null
  /\ datasetChanges = 0
  /\ selectedNodeId = Null
  /\ isKeyboardActive = FALSE
  /\ timers = <<>>
  /\ centerTimers = <<>>
  /\ highlightedUserId = Null
  /\ zoomLevel = DefaultZoom
  /\ panPosition = Origin
  /\ layoutMode = "tree"
  /\ viewMode = "chart"
  /\ cardSizeMode = "standard"

\* the users prop changes: the memos (mappedUsers, orgTree, filterResult) are
\* recomputed in the render, the state hooks keep their values, and the
\* effect of useOrgChart is scheduled
SetUsers(us) ==
  /\ pc = "rendered"
  /\ datasetChanges < MaxDatasetChanges
  /\ users' = us
  /\ mapping' = categorizeMappedUsers(us)
  /\ LET r == RenderFilter(RenderedTree(us), focusedNodeId, filters)
     IN orgTree' = r.orgTree /\ filterResult' = r.filterResult
  /\ pc' = "effectPending"
  /\ datasetChanges' = datasetChanges + 1
  /\ UNCHANGED <<forest, cycles, validation, expandState, lastToggled,
                 toggleCount, expandDepth, filters, focusedNodeId,
                 selectedNodeId, isKeyboardActive, timers, centerTimers,
                 highlightedUserId, zoomLevel, panPosition, layoutMode,
                 viewMode, cardSizeMode>>

\* the effect that keeps the expand map as it is
RunEffect_KeepsMap ==
  /\ pc = "effectPending"
  /\ pc' = "rendered"
  /\ UNCHANGED <<users, forest, cycles, validation, mapping, orgTree, expandState,
                 lastToggled, toggleCount, expandDepth, filters, filterResult,
                 focusedNodeId, datasetChanges,
                 selectedNodeId, isKeyboardActive, timers, centerTimers,
                 highlightedUserId, zoomLevel, panPosition, layoutMode,
                 viewMode, cardSizeMode>>

\* useEffect(() => setExpandState(expandToDepth(orgTree, initialExpandDepth)),
\* [orgTree, initialExpandDepth]), run after the render that changed orgTree
RunEffect ==
  /\ pc = "effectPending"
  /\ expandState' = expandToDepth(orgTree, expandDepth)
  /\ pc' = "rendered"
  /\ UNCHANGED <<users, forest, cycles, validation, mapping, orgTree,
                 lastToggled, toggleCount, expandDepth, filters, filterResult,
                 focusedNodeId, datasetChanges,
                 selectedNodeId, isKeyboardActive, timers, centerTimers,
                 highlightedUserId, zoomLevel, panPosition, layoutMode,
                 viewMode, cardSizeMode>>

\* the expand button that also leaves the focus mode
OnToggleExpand_ClearsFocus(nodeId) ==
  /\ pc = "rendered"
  /\ nodeId \in SeqToSet(ForestIds(orgTree))
  /\ expandState' = toggleNodeExpansion(expandState, nodeId)
  /\ lastToggled' = nodeId
  /\ focusedNodeId' = Null
  /\ LET r == RenderFilter(orgTree, Null, filters)
     IN orgTree' = r.orgTree /\ filterResult' = r.filterResult
  /\ UNCHANGED <<users, pc, forest, cycles, validation, mapping,
                 toggleCount, expandDepth, filters, datasetChanges,
                 selectedNodeId, isKeyboardActive, timers, centerTimers,
                 highlightedUserId, zoomLevel, panPosition, layoutMode,
                 viewMode, cardSizeMode>>

\* the expand button of a node card: onToggleExpand(node.id), which is
\* toggleExpansion of the hook
OnToggleExpand(nodeId) ==
  /\ pc = "rendered"
  /\ nodeId \in SeqToSet(ForestIds(orgTree))
  /\ expandState' = toggleNodeExpansion(expandState, nodeId)
  /\ lastToggled' = nodeId
  /\ UNCHANGED <<users, pc, forest, cycles, validation, mapping, orgTree,
                 toggleCount, expandDepth, filters, filterResult,
                 focusedNodeId, datasetChanges,
                 selectedNodeId, isKeyboardActive, timers, centerTimers,
                 highlightedUserId, zoomLevel, panPosition, layoutMode,
                 viewMode, cardSizeMode>>

\* setFocusedNodeId(nodeId) and the render that follows
SetFocusedNodeId(nodeId) ==
  /\ focusedNodeId' = nodeId
  /\ LET r == RenderFilter(orgTree, nodeId, filters)
     IN orgTree' = r.orgTree /\ filterResult' = r.filterResult
  /\ UNCHANGED <<users, pc, forest, cycles, validation, mapping, expandState,
                 lastToggled, toggleCount, expandDepth, filters, datasetChanges,
                 selectedNodeId, isKeyboardActive, timers, centerTimers,
                 highlightedUserId, zoomLevel, panPosition, layoutMode,
                 viewMode, cardSizeMode>>

\* handleFocus(nodeId), from the card of a node
HandleFocus(nodeId) ==
  /\ pc = "rendered"
  /\ nodeId \in SeqToSet(ForestIds(orgTree))
  /\ SetFocusedNodeId(nodeId)

\* handleBreadcrumbNavigate(nodeId): a node of the focus path, or null (home)
HandleBreadcrumbNavigate(nodeId) ==
  /\ pc = "rendered"
  /\ Truthy(focusedNodeId)
  /\ nodeId \in SeqToSet(getNodePath(orgTree, focusedNodeId)) \cup {Null}
  /\ SetFocusedNodeId(nodeId)

\* clearFocus(), offered while a focus is set
ClearFocus ==
  /\ pc = "rendered"
  /\ Truthy(focusedNodeId)
  /\ SetFocusedNodeId(Null)

\* onFiltersChange(c) of the filter panel: setFilters(c) and the render
SetFilters(c) ==
  /\ pc = "rendered"
  /\ filters' = c
  /\ LET r == RenderFilter(orgTree, focusedNodeId, c)
     IN orgTree' = r.orgTree /\ filterResult' = r.filterResult
  /\ UNCHANGED <<users, pc, forest, cycles, validation, mapping, expandState,
                 lastToggled, toggleCount, expandDepth, focusedNodeId,
                 datasetChanges,
                 selectedNodeId, isKeyboardActive, timers, centerTimers,
                 highlightedUserId, zoomLevel, panPosition, layoutMode,
                 viewMode, cardSizeMode>>

NextChart ==
  \/ \E us \in ChartLists : SetUsers(us)
  \/ RunEffect
  \/ \E nodeId \in Names : OnToggleExpand(nodeId)
  \/ ExpandAllNodes
  \/ CollapseAllNodes
  \/ \E nodeId \in Names : HandleFocus(nodeId)
  \/ \E nodeId \in Names \cup {Null} : HandleBreadcrumbNavigate(nodeId)
  \/ ClearFocus
  \/ \E c \in ChartFilterChoices : SetFilters(c)

SpecChart == InitChart /\ [][NextChart]_vars

\* the effect is run once the render that scheduled it is committed
SpecChartLive == SpecChart /\ WF_vars(RunEffect)

----------------------------------------------------------------------------
(* Specification SpecKeys: the mounted OrgChart navigated by the keyboard  *)
(* (useKeyboardNavigation), with card clicks and a dataset that is replaced *)

\* Array.prototype.findIndex(n => n.id === x): 0-based, -1 when absent
IndexOf(ids, x) ==
  IF \E i \in DOMAIN ids : ids[i] = x
  THEN (CHOOSE i \in DOMAIN ids : ids[i] = x /\ \A j \in 1..(i - 1) : ids[j] # x) - 1
  ELSE -1

NoSiblings == [siblings |-> <<>>, index |-> -1, parent |-> Null, found |-> FALSE]

\* findInTree of findSiblings: the first node, in depth-first order, whose
\* children hold nodeId
RECURSIVE findInTree(_, _, _)
findInTree(f, ids, nodeId) ==
  IF ids = <<>> THEN NoSiblings
  ELSE LET node == f.nodes[Head(ids)]
           childIndex == IndexOf(node.children, nodeId)
       IN IF childIndex >= 0
          THEN [siblings |-> node.children, index |-> childIndex,
                parent |-> node.id, found |-> TRUE]
          ELSE LET below == findInTree(f, node.children, nodeId)
               IN IF below.found THEN below ELSE findInTree(f, Tail(ids), nodeId)

\* findSiblings that looks among the roots only
findSiblings_RootsOnly(f, nodeId) ==
  [siblings |-> f.rootNodes, index |-> IndexOf(f.rootNodes, nodeId),
   parent |-> Null, found |-> IndexOf(f.rootNodes, nodeId) >= 0]

\* findSiblings over the forest handed to the hook as orgTree
findSiblings(f, nodeId) ==
  IF IndexOf(f.rootNodes, nodeId) >= 0
  THEN [siblings |-> f.rootNodes, index |-> IndexOf(f.rootNodes, nodeId),
        parent |-> Null, found |-> TRUE]
  ELSE findInTree(f, f.rootNodes, nodeId)

ArrowKeys == {"ArrowUp", "ArrowDown", "ArrowLeft", "ArrowRight"}

\* the keys handleKeyDown has a case for (Space stands for ' ', 'f' and 'F')
Keys == ArrowKeys \cup {"Enter", "Space", "Escape"}

\* the state cells a key press or a navigation button may write
KeyState ==
  [selectedNodeId |-> selectedNodeId, isKeyboardActive |-> isKeyboardActive,
   expandState |-> expandState, focusedNodeId |-> focusedNodeId, timers |-> timers]

\* the timer of ArrowRight and goToChild: its callback reads the node selected
\* when it was set, in the forest of that render
FirstChildTimer(tree, nodeId, activate) ==
  [nodeId |-> nodeId, child |-> Head(tree.nodes[findNode(tree, nodeId)].children),
   activate |-> activate]

\* MoveToChild that sets the timer and leaves the expand map alone
MoveToChild_NoExpand(tree, st, activate) ==
  IF hasChildren(tree, st.selectedNodeId)
  THEN [st EXCEPT
          !.timers = Append(@, FirstChildTimer(tree, st.selectedNodeId, activate))]
  ELSE st

\* ArrowRight and the body of goToChild: expand when collapsed, then set the
\* timer that moves to the first child
MoveToChild(tree, st, activate) ==
  IF hasChildren(tree, st.selectedNodeId)
  THEN [st EXCEPT
          !.expandState = IF ~IsExpanded(@, st.selectedNodeId)
                          THEN toggleNodeExpansion(@, st.selectedNodeId) ELSE @,
          !.timers = Append(@, FirstChildTimer(tree, st.selectedNodeId, activate))]
  ELSE st

\* the Escape case that clears the selection whether or not a focus is set
EscapeKey_ClearsBoth(st) ==
  [st EXCEPT !.focusedNodeId = Null, !.selectedNodeId = Null,
             !.isKeyboardActive = FALSE]

\* case 'Escape'
EscapeKey(st) ==
  IF Truthy(st.focusedNodeId)
  THEN [st EXCEPT !.focusedNodeId = Null]
  ELSE [st EXCEPT !.selectedNodeId = Null, !.isKeyboardActive = FALSE]

\* handleKeyDown on the state st: tree is the full forest of useOrgChart
\* (findNode, hasChildren), the forest of findSiblings is the active forest
keyDown(tree, st, key) ==
  LET active == ActiveForest(tree, st.focusedNodeId)
      sel == st.selectedNodeId
  IN IF ~Truthy(sel)
     THEN IF key \in ArrowKeys
          THEN LET firstNode == IF Truthy(st.focusedNodeId)
                                THEN findNode(tree, st.focusedNodeId)
                                ELSE IF active.rootNodes # <<>>
                                     THEN Head(active.rootNodes) ELSE Null
               IN IF firstNode # Null
                  THEN [st EXCEPT !.selectedNodeId = firstNode,
                                  !.isKeyboardActive = TRUE]
                  ELSE st
          ELSE st
     ELSE IF findNode(tree, sel) = Null THEN st
     ELSE LET sib == findSiblings(active, sel)
          IN CASE key = "ArrowUp" ->
                    IF sib.index > 0
                    THEN [st EXCEPT !.selectedNodeId = sib.siblings[sib.index]]
                    ELSE st
               [] key = "ArrowDown" ->
                    IF sib.index < Len(sib.siblings) - 1
                    THEN [st EXCEPT !.selectedNodeId = sib.siblings[sib.index + 2]]
                    ELSE st
               [] key = "ArrowLeft" ->
                    IF sib.parent # Null
                    THEN [st EXCEPT !.selectedNodeId = sib.parent]
                    ELSE st
               [] key = "ArrowRight" -> MoveToChild(tree, st, FALSE)
               [] key = "Enter" ->
                    IF hasChildren(tree, sel)
                    THEN [st EXCEPT !.expandState = toggleNodeExpansion(@, sel)]
                    ELSE st
               [] key = "Space" ->
                    IF hasChildren(tree, sel)
                    THEN [st EXCEPT !.focusedNodeId = sel]
                    ELSE st
               [] key = "Escape" -> EscapeKey(st)

\* the state cells are set to st and the component renders again
WriteKeyState(st) ==
  /\ selectedNodeId' = st.selectedNodeId
  /\ isKeyboardActive' = st.isKeyboardActive
  /\ expandState' = st.expandState
  /\ focusedNodeId' = st.focusedNodeId
  /\ timers' = st.timers
  /\ LET r == RenderFilter(orgTree, st.focusedNodeId, filters)
     IN orgTree' = r.orgTree /\ filterResult' = r.filterResult
  /\ UNCHANGED <<users, pc, forest, cycles, validation, mapping, lastToggled,
                 toggleCount, expandDepth, filters, datasetChanges, centerTimers,
                 highlightedUserId, zoomLevel, panPosition, layoutMode,
                 viewMode, cardSizeMode>>

\* a keydown event on the document, outside of input fields
HandleKeyDown(key) ==
  /\ pc = "rendered"
  /\ Len(keyDown(orgTree, KeyState, key).timers) <= MaxTimers
  /\ WriteKeyState(keyDown(orgTree, KeyState, key))

\* the callback of the oldest first-child timer: setSelectedNodeId of the
\* first child (and setIsKeyboardActive(true) for goToChild)
TimerFires ==
  /\ pc = "rendered"
  /\ timers # <<>>
  /\ WriteKeyState([KeyState EXCEPT
       !.selectedNodeId = Head(timers).child,
       !.isKeyboardActive = IF Head(timers).activate THEN TRUE ELSE @,
       !.timers = Tail(@)])

\* goToParent on the state st, with a node selected
goToParent(tree, st) ==
  LET sib == findSiblings(ActiveForest(tree, st.focusedNodeId), st.selectedNodeId)
  IN IF sib.parent # Null
     THEN [st EXCEPT !.selectedNodeId = sib.parent, !.isKeyboardActive = TRUE]
     ELSE st

\* goToParent, the button shown while a node is selected
GoToParent ==
  /\ pc = "rendered"
  /\ Truthy(selectedNodeId)
  /\ WriteKeyState(goToParent(orgTree, KeyState))

\* goToChild, the button shown while a node is selected
GoToChild ==
  /\ pc = "rendered"
  /\ Truthy(selectedNodeId)
  /\ Len(MoveToChild(orgTree, KeyState, TRUE).timers) <= MaxTimers
  /\ WriteKeyState(MoveToChild(orgTree, KeyState, TRUE))

\* focusOnSelected, the button shown while a node is selected
FocusOnSelected ==
  /\ pc = "rendered"
  /\ Truthy(selectedNodeId)
  /\ WriteKeyState(IF hasChildren(orgTree, selectedNodeId)
                   THEN [KeyState EXCEPT !.focusedNodeId = selectedNodeId]
                   ELSE KeyState)

\* the nodes that have a card on the screen: the visible nodes of the
\* filtered active forest
RenderedIds ==
  LET shown == filterResult.filteredTree
  IN SeqToSet(getVisibleNodes(shown, shown.rootNodes, expandState))

\* a click on the card of a node: onSelect(node.id) is setSelectedNodeId
OnSelect(nodeId) ==
  /\ pc = "rendered"
  /\ nodeId \in RenderedIds
  /\ WriteKeyState([KeyState EXCEPT !.selectedNodeId = nodeId])

\* a double click on the card of a node with children: onFocus(node.id)
HandleDoubleClick(nodeId) ==
  /\ pc = "rendered"
  /\ nodeId \in RenderedIds
  /\ hasChildren(orgTree, nodeId)
  /\ WriteKeyState([KeyState EXCEPT !.focusedNodeId = nodeId])

\* the record lists of the navigated component
KeyLists == OrderedLists(ChartUserData, MaxKeyUsers) \ {<<>>}

\* the record lists that replace the dataset of the navigated component
KeyReplacements == {us \in KeyLists : Len(us) = 1}

InitKeys ==
  /\ users \in KeyLists
  /\ pc = "effectPending"
  /\ forest = EmptyForest
  /\ cycles = <<>>
  /\ validation = EmptyValidation
  /\ mapping = categorizeMappedUsers(users)
  /\ orgTree = RenderedTree(users)
  /\ expandState = expandToDepth(RenderedTree(users), InitialExpandDepth)
  /\ lastToggled = Null
  /\ toggleCount = 0
  /\ expandDepth = InitialExpandDepth
  /\ filters = EmptyFilters
  /\ filterResult = filterOrgTree(RenderedTree(users), EmptyFilters)
  /\ focusedNodeId = Null
  /\ datasetChanges = 0
  /\ selectedNodeId = Null
  /\ isKeyboardActive = FALSE
  /\ timers = <<>>
  /\ centerTimers = <<>>
  /\ highlightedUserId = Null
  /\ zoomLevel = DefaultZoom
  /\ panPosition = Origin
  /\ layoutMode = "tree"
  /\ viewMode = "chart"
  /\ cardSizeMode = "standard"

NextKeys ==
  \/ \E key \in Keys : HandleKeyDown(key)
  \/ TimerFires
  \/ GoToParent
  \/ GoToChild
  \/ FocusOnSelected
  \/ \E nodeId \in Names : OnSelect(nodeId)
  \/ \E nodeId \in Names : HandleDoubleClick(nodeId)
  \/ ClearFocus
  \/ \E us \in KeyReplacements : SetUsers(us)
  \/ RunEffect

SpecKeys == InitKeys /\ [][NextKeys]_vars

\* a timer that is set fires: the 50 ms pass
SpecKeysLive == SpecKeys /\ WF_vars(TimerFires) /\ WF_vars(RunEffect)

----------------------------------------------------------------------------
(* Specification SpecSearch: the mounted OrgChart with the search box, the  *)
(* reset button and the controls that write the view state they reset      *)

\* findNodeByName of handleSearchSelect: depth-first, by user.fullName
RECURSIVE findNodeByName(_, _, _)
findNodeByName(f, ids, userId) ==
  IF ids = <<>> THEN Null
  ELSE LET node == f.nodes[Head(ids)]
       IN IF node.user.fullName = userId THEN node.id
          ELSE LET found == findNodeByName(f, node.children, userId)
               IN IF found # Null THEN found
                  ELSE findNodeByName(f, Tail(ids), userId)

\* path.forEach(p => { if (!isNodeExpanded(p.id)) toggleExpansion(p.id) }):
\* isNodeExpanded reads the map of the render, the toggles are applied to the
\* map one after the other
RECURSIVE expandPath(_, _, _)
expandPath(rendered, map, path) ==
  IF path = <<>> THEN map
  ELSE expandPath(rendered,
                  IF ~IsExpanded(rendered, Head(path))
                  THEN toggleNodeExpansion(map, Head(path)) ELSE map,
                  Tail(path))

\* the state cells the search and the reset may write, with the display modes
SearchState ==
  [focusedNodeId |-> focusedNodeId, filters |-> filters,
   highlightedUserId |-> highlightedUserId, selectedNodeId |-> selectedNodeId,
   zoomLevel |-> zoomLevel, panPosition |-> panPosition,
   expandState |-> expandState, centerTimers |-> centerTimers,
   layoutMode |-> layoutMode, viewMode |-> viewMode,
   cardSizeMode |-> cardSizeMode]

\* the timer of handleSearchSelect (250 ms): what its callback does depends
\* on the document only
CenterTimer == "center"

\* handleSearchSelect that highlights and selects without expanding the path
handleSearchSelect_NoExpand(tree, st, userId) ==
  LET node == findNodeByName(tree, tree.rootNodes, userId)
  IN IF node = Null THEN st
     ELSE [st EXCEPT !.focusedNodeId = IF Truthy(@) THEN Null ELSE @,
                     !.panPosition = Origin,
                     !.highlightedUserId = node,
                     !.selectedNodeId = node,
                     !.centerTimers = Append(@, CenterTimer)]

\* handleSearchSelect(userId) on the state st
handleSearchSelect(tree, st, userId) ==
  LET node == findNodeByName(tree, tree.rootNodes, userId)
  IN IF node = Null THEN st
     ELSE [st EXCEPT !.focusedNodeId = IF Truthy(@) THEN Null ELSE @,
                     !.panPosition = Origin,
                     !.expandState = expandPath(@, @, getNodePath(tree, node)),
                     !.highlightedUserId = node,
                     !.selectedNodeId = node,
                     !.centerTimers = Append(@, CenterTimer)]

\* handleFullReset that leaves the filter criteria as they are
handleFullReset_KeepsFilters(tree, depthOption, st) ==
  [st EXCEPT !.focusedNodeId = Null,
             !.highlightedUserId = Null,
             !.selectedNodeId = Null,
             !.zoomLevel = DefaultZoom,
             !.panPosition = Origin,
             !.expandState = expandToDepth(tree, depthOption)]

\* handleFullReset on the state st; resetToDefaultExpand is
\* setExpandState(expandToDepth(orgTree, initialExpandDepth))
handleFullReset(tree, depthOption, st) ==
  [st EXCEPT !.focusedNodeId = Null,
             !.filters = EmptyFilters,
             !.highlightedUserId = Null,
             !.selectedNodeId = Null,
             !.zoomLevel = DefaultZoom,
             !.panPosition = Origin,
             !.expandState = expandToDepth(tree, depthOption)]

\* the state cells are set to st and the component renders again
WriteSearchState(st) ==
  /\ focusedNodeId' = st.focusedNodeId
  /\ filters' = st.filters
  /\ highlightedUserId' = st.highlightedUserId
  /\ selectedNodeId' = st.selectedNodeId
  /\ zoomLevel' = st.zoomLevel
  /\ panPosition' = st.panPosition
  /\ expandState' = st.expandState
  /\ centerTimers' = st.centerTimers
  /\ layoutMode' = st.layoutMode
  /\ viewMode' = st.viewMode
  /\ cardSizeMode' = st.cardSizeMode
  /\ LET r == RenderFilter(orgTree, st.focusedNodeId, st.filters)
     IN orgTree' = r.orgTree /\ filterResult' = r.filterResult
  /\ UNCHANGED <<users, pc, forest, cycles, validation, mapping, lastToggled,
                 toggleCount, expandDepth, datasetChanges, isKeyboardActive,
                 timers>>

\* the toolbar rows are rendered unless the forest is empty
ToolbarShown == pc = "rendered" /\ orgTree.rootNodes # <<>>

\* the canvas with the cards is rendered in the chart view
ChartShown == ToolbarShown /\ viewMode = "chart"

\* the names of the records of a list, in its order
NamesOf(us) == [i \in DOMAIN us |-> us[i].fullName]

\* a result of the search box is chosen: onSelectUser(userId), the search box
\* lists the mapped users
HandleSearchSelect(userId) ==
  /\ ToolbarShown
  /\ userId \in SeqToSet(NamesOf(mapping.mappedUsers))
  /\ Len(handleSearchSelect(orgTree, SearchState, userId).centerTimers) <= MaxTimers
  /\ WriteSearchState(handleSearchSelect(orgTree, SearchState, userId))

\* the pan that centres a card: it depends on the rectangles of the layout
Centered == [x |-> 0, y |-> 40]

\* the callback of the oldest centring timer (250 ms): setPanPosition when
\* the card and the canvas are in the document, nothing otherwise
CenterTimerFires ==
  /\ pc = "rendered"
  /\ centerTimers # <<>>
  /\ \E inDocument \in {FALSE, ChartShown} :
       WriteSearchState([SearchState EXCEPT
         !.panPosition = IF inDocument THEN Centered ELSE @,
         !.centerTimers = Tail(@)])

\* the reset button of the toolbar
HandleFullReset ==
  /\ ToolbarShown
  /\ WriteSearchState(handleFullReset(orgTree, expandDepth, SearchState))

\* the expand button of a card: onSelect(node.id), then onToggleExpand(node.id)
\* when the node has children
HandleExpandClick(nodeId) ==
  /\ ChartShown
  /\ nodeId \in RenderedIds
  /\ WriteSearchState([SearchState EXCEPT
       !.selectedNodeId = nodeId,
       !.expandState = IF Len(orgTree.nodes[nodeId].children) > 0
                       THEN toggleNodeExpansion(@, nodeId) ELSE @])

\* the close button of the highlight
HandleDismissHighlight ==
  /\ ChartShown
  /\ Truthy(highlightedUserId)
  /\ WriteSearchState([SearchState EXCEPT !.highlightedUserId = Null])

\* maxZoom
MaxZoom == 150

\* the zoom-in button: setZoomLevel(z => Math.min(z + zoomStep, maxZoom))
HandleZoomIn ==
  /\ ToolbarShown
  /\ zoomLevel < DefaultZoom + MaxZoomSteps * ZoomStep
  /\ WriteSearchState([SearchState EXCEPT !.zoomLevel = Min(@ + ZoomStep, MaxZoom)])

\* the layout buttons: setLayoutMode('tree'), setLayoutMode('radial')
SetLayoutMode(mode) ==
  /\ ToolbarShown
  /\ WriteSearchState([SearchState EXCEPT !.layoutMode = mode])

\* the unmapped-users button, shown when there are unmapped users: it
\* switches between the two view modes
ToggleViewMode ==
  /\ ToolbarShown
  /\ Len(mapping.unmappedUsers) > 0
  /\ WriteSearchState([SearchState EXCEPT
       !.viewMode = IF @ = "unmapped" THEN "chart" ELSE "unmapped"])

\* the card size buttons: setCardSizeMode('standard'), setCardSizeMode('compact')
SetCardSizeMode(mode) ==
  /\ ToolbarShown
  /\ WriteSearchState([SearchState EXCEPT !.cardSizeMode = mode])

\* the names a search result may carry
SearchIds == Names

InitSearch == InitKeys

\* the search box, the cards and the highlight
NextSearch ==
  \/ \E userId \in SearchIds : HandleSearchSelect(userId)
  \/ CenterTimerFires
  \/ \E nodeId \in Names : HandleExpandClick(nodeId)
  \/ \E nodeId \in Names : HandleFocus(nodeId)
  \/ HandleDismissHighlight
  \/ RunEffect

SpecSearch == InitSearch /\ [][NextSearch]_vars

\* records whose manager is empty, the first name or a name of no record
ResetUserData == {u \in PlainUserData : u.manager \in {EmptyStr, NameA, Nonexistent}}

\* the record lists of the component with the toolbar
ResetLists == OrderedLists(ResetUserData, MaxChartUsers) \ {<<>>}

InitReset ==
  /\ users \in ResetLists
  /\ pc = "effectPending"
  /\ forest = EmptyForest
  /\ cycles = <<>>
  /\ validation = EmptyValidation
  /\ mapping = categorizeMappedUsers(users)
  /\ orgTree = RenderedTree(users)
  /\ expandState = expandToDepth(RenderedTree(users), InitialExpandDepth)
  /\ lastToggled = Null
  /\ toggleCount = 0
  /\ expandDepth = InitialExpandDepth
  /\ filters = EmptyFilters
  /\ filterResult = filterOrgTree(RenderedTree(users), EmptyFilters)
  /\ focusedNodeId = Null
  /\ datasetChanges = 0
  /\ selectedNodeId = Null
  /\ isKeyboardActive = FALSE
  /\ timers = <<>>
  /\ centerTimers = <<>>
  /\ highlightedUserId = Null
  /\ zoomLevel = DefaultZoom
  /\ panPosition = Origin
  /\ layoutMode = "tree"
  /\ viewMode = "chart"
  /\ cardSizeMode = "standard"

\* the search box, the focus, the filter panel and the toolbar
NextReset ==
  \/ \E userId \in SearchIds : HandleSearchSelect(userId)
  \/ CenterTimerFires
  \/ \E nodeId \in Names : ChartShown /\ HandleFocus(nodeId)
  \/ HandleFullReset
  \/ \E c \in ChartFilterChoices : ToolbarShown /\ SetFilters(c)
  \/ HandleZoomIn
  \/ \E mode \in {"tree", "radial"} : SetLayoutMode(mode)
  \/ ToggleViewMode
  \/ \E mode \in {"standard", "compact"} : SetCardSizeMode(mode)
  \/ RunEffect

SpecReset == InitReset /\ [][NextReset]_vars

----------------------------------------------------------------------------
(* Vocabulary of the claims *)

\* the manager of a record as buildOrgChart and detectCircularRefs resolve
\* it: the referenced name when it is non-empty and names a record
ResolvedManager(us, name) ==
  LET m == UserOf(us, name).manager
  IN IF Truthy(m) /\ m \in NameSet(us) THEN m ELSE Null

\* the record reached from name by following k resolved manager references
RECURSIVE ManagerChain(_, _, _)
ManagerChain(us, name, k) ==
  IF k = 0 \/ name = Null THEN name
  ELSE ManagerChain(us, ResolvedManager(us, name), k - 1)

\* name lies on a cycle of the manager-reference graph
OnCycle(us, name) == \E k \in 1..Len(us) : ManagerChain(us, name, k) = name

CycleParticipants(us) == {n \in NameSet(us) : OnCycle(us, n)}

\* the names of the records that name this record as their manager
ReportsOf(us, name) == {us[i].fullName : i \in {j \in DOMAIN us : us[j].manager = name}}

\* a record whose non-empty manager reference matches no record
Dangling(us, u) == u.manager # EmptyStr /\ u.manager \notin NameSet(us)

\* the parents a node has among the nodes reachable from the roots
ParentsOf(f, id) ==
  {p \in SeqToSet(ForestIds(f)) : id \in SeqToSet(f.nodes[p].children)}

----------------------------------------------------------------------------
(* Claims about buildOrgChart *)

\* C1 (as stated): for every non-empty record list with distinct names, also
\* with self-managed records, cycles and dangling references, the nodes
\* reachable from the roots have exactly the input names as ids, each once,
\* and no node is a child of more than one parent.
C1_ForestWellFormed ==
  (pc = "buildOrgChart" /\ users # <<>>) =>
    LET ids == ForestIds(forest)
    IN /\ SeqToSet(ids) = NameSet(users)
       /\ \A n \in NameSet(users) : Occurrences(ids, n) = 1
       /\ \A n \in SeqToSet(ids) :
            /\ Cardinality(ParentsOf(forest, n)) <= 1
            /\ \A p \in ParentsOf(forest, n) :
                 Occurrences(forest.nodes[p].children, n) = 1

\* C2 (as stated): in every forest returned by buildOrgChart, whatever the
\* order of the records, every root has level 0 and every non-root node has
\* the level of its parent plus 1.
C2_LevelInvariant ==
  pc = "buildOrgChart" =>
    /\ \A i \in DOMAIN forest.rootNodes : forest.nodes[forest.rootNodes[i]].level = 0
    /\ \A p \in SeqToSet(ForestIds(forest)) :
         \A i \in DOMAIN forest.nodes[p].children :
           forest.nodes[forest.nodes[p].children[i]].level = forest.nodes[p].level + 1

\* C3 (as stated): buildOrgChart returns on malformed input, and a record
\* whose manager reference is cycle-forming is a root node of the returned
\* forest, not dropped from it.
C3_CycleBecomesRoot ==
  pc = "buildOrgChart" =>
    \A n \in CycleParticipants(users) : n \in SeqToSet(forest.rootNodes)

\* C4: a record whose non-empty manager reference matches no record of the
\* list is a root node with level 0, and its children are exactly its reports.
C4_DanglingIsRoot ==
  pc = "buildOrgChart" =>
    \A i \in DOMAIN users :
      Dangling(users, users[i]) =>
        LET id == users[i].fullName
        IN /\ Occurrences(forest.rootNodes, id) = 1
           /\ forest.nodes[id].level = 0
           /\ SeqToSet(forest.nodes[id].children) = ReportsOf(users, id)
           /\ Len(forest.nodes[id].children) = Cardinality(ReportsOf(users, id))

\* C4 witness: a dangling record that has a report was built into a forest
C4_Witness ==
  /\ pc = "buildOrgChart"
  /\ \E i \in DOMAIN users :
       /\ Dangling(users, users[i])
       /\ ReportsOf(users, users[i].fullName) # {}
       /\ users[i].fullName \in SeqToSet(forest.rootNodes)

----------------------------------------------------------------------------
(* Claims about the rendered forest and the validator *)

\* a manager reference that is empty or whitespace-only
BlankRef(u) == Trim(u.manager) = EmptyStr

\* C5 (as stated): for every non-empty record list the forest the OrgChart
\* component renders is non-empty, so the 'Unable to Build Org Chart' state
\* (orgTree.length === 0) is not reached because of the shape of the data.
C5_RenderedForestNonEmpty ==
  (pc = "rendered" /\ users # <<>>) => orgTree.rootNodes # <<>>

\* C5 (amended): the rendered forest is non-empty whenever some record has an
\* empty manager reference, and it is empty whenever no record has an empty
\* or whitespace-only manager reference.
C5_RenderedForestNonEmptyIffRoot ==
  pc = "rendered" =>
    /\ (\E i \in DOMAIN users : users[i].manager = EmptyStr) => orgTree.rootNodes # <<>>
    /\ (\A i \in DOMAIN users : ~BlankRef(users[i])) => orgTree.rootNodes = <<>>

\* C5 witness: a non-empty list in which every record is on a manager cycle
\* was rendered, and the rendered forest is empty
C5_Witness ==
  /\ pc = "rendered"
  /\ users # <<>>
  /\ CycleParticipants(users) = NameSet(users)
  /\ orgTree.rootNodes = <<>>

\* C6 (as stated): detectCircularRefs returns exactly the ids of the records
\* that lie on a cycle of the manager-reference graph, each once, and the
\* circularRefs count of validateOrgData is the number of cycle participants.
C6_CyclesAreParticipants ==
  /\ pc = "detectCircularRefs" =>
       /\ SeqToSet(cycles) = CycleParticipants(users)
       /\ Len(cycles) = Cardinality(CycleParticipants(users))
  /\ pc = "validateOrgData" =>
       validation.stats.circularRefs = Cardinality(CycleParticipants(users))

\* the manager of a record as categorizeMappedUsers reads it: a blank
\* reference is no reference
NonBlankManager(us, name) ==
  LET u == UserOf(us, name)
  IN IF ~BlankRef(u) /\ u.manager \in NameSet(us) THEN u.manager ELSE Null

RECURSIVE NonBlankChain(_, _, _)
NonBlankChain(us, name, k) ==
  IF k = 0 \/ name = Null THEN name
  ELSE NonBlankChain(us, NonBlankManager(us, name), k - 1)

\* name lies on a cycle of non-blank manager references
OnManagerCycle(us, name) == \E k \in 1..Len(us) : NonBlankChain(us, name, k) = name

\* the names reached from the set S in at most k manager-to-report links
RECURSIVE ReportsClosure(_, _, _)
ReportsClosure(us, S, k) ==
  IF k = 0 THEN S
  ELSE ReportsClosure(us,
         S \cup {us[i].fullName : i \in {j \in DOMAIN us : NonBlankManager(us, us[j].fullName) \in S}},
         k - 1)

ReachableFromTrueRoots(us) ==
  ReportsClosure(us, {us[i].fullName : i \in {j \in DOMAIN us : BlankRef(us[j])}}, Len(us))

C8_RootCountIsTrueRoots ==
  pc = "validateOrgData" =>
    validation.stats.rootNodes = Len(categorizeMappedUsers(users).trueRoots)

\* C8 (amended): the rootNodes count equals the number of records whose
\* manager reference is empty or matches no record name, which is the number
\* of root nodes buildOrgChart returns for the same list.
C8_RootCountIsForestRoots ==
  pc = "validateOrgData" =>
    /\ validation.stats.rootNodes =
         Cardinality({i \in DOMAIN users :
                        users[i].manager = EmptyStr \/ Dangling(users, users[i])})
    /\ validation.stats.rootNodes = Len(buildOrgChart(users).rootNodes)

\* C8 witness: a list with a dangling manager reference was validated and
\* its root count exceeds its number of true roots
C8_Witness ==
  /\ pc = "validateOrgData"
  /\ \E i \in DOMAIN users : users[i].manager = Nonexistent
  /\ validation.stats.rootNodes > Len(SelectSeq(users, BlankRef))

HasWarning(v, text) == \E i \in DOMAIN v.warnings : v.warnings[i].text = text

\* C9 (as stated): for every record list, also with whitespace-only manager
\* references, the orphanedNodes count equals the number of records in
\* unmappedUsers, and the 'managers not in the dataset' warning is present
\* exactly when that count is non-zero.
C9_OrphanCountIsUnmapped ==
  pc = "validateOrgData" =>
    LET unmapped == categorizeMappedUsers(users).unmappedUsers
    IN /\ validation.stats.orphanedNodes = Len(unmapped)
       /\ HasWarning(validation, OrphanWarning) <=> Len(unmapped) # 0

----------------------------------------------------------------------------
(* Claims about the expand map *)

\* the expand map m with the entry of id set to v
WithEntry(m, id, v) == [x \in DOMAIN m \cup {id} |-> IF x = id THEN v ELSE m[x]]

\* C10 (as stated): for every expand map m and every id, toggling id twice
\* gives m back (same keys, same values), also when id has no entry in m.
C10_DoubleToggleIsIdentity ==
  \A id \in ToggleIds :
    toggleNodeExpansion(toggleNodeExpansion(expandState, id), id) = expandState

\* C10 (amended): toggling id twice gives m back when id has an entry in m;
\* when id has no entry the result is m with the entry id -> true added, and
\* in both cases every id is effectively expanded in the result exactly when
\* it is in m.
C10_DoubleToggleKeepsEffectiveState ==
  \A id \in ToggleIds :
    LET twice == toggleNodeExpansion(toggleNodeExpansion(expandState, id), id)
    IN /\ id \in DOMAIN expandState => twice = expandState
       /\ id \notin DOMAIN expandState => twice = WithEntry(expandState, id, TRUE)
       /\ \A x \in ToggleIds : IsExpanded(twice, x) = IsExpanded(expandState, x)

\* C10 witness: an id without an entry in the initial map was toggled twice
\* and now has the explicit entry true
C10_Witness ==
  /\ toggleCount = 2
  /\ lastToggled \notin DOMAIN expandToDepth(orgTree, InitialExpandDepth)
  /\ lastToggled \in DOMAIN expandState
  /\ expandState[lastToggled] = TRUE

\* C11: a toggle of id gives a map in which the entry of id is the negation
\* of its effective state (absent or true becomes false, false becomes true),
\* id has an entry afterwards, no key is added besides id and every other key
\* keeps its value.
C11_ToggleNegatesOneEntry ==
  [][toggleCount' = toggleCount + 1 =>
       LET id == lastToggled'
       IN /\ DOMAIN expandState' = DOMAIN expandState \cup {id}
          /\ expandState'[id] =
               (IF id \in DOMAIN expandState /\ expandState[id] = FALSE
                THEN TRUE ELSE FALSE)
          /\ \A x \in DOMAIN expandState \ {id} : expandState'[x] = expandState[x]
     ]_vars

\* C11 witness: an id without an entry was toggled once and is now explicitly
\* collapsed, next to an entry true and an entry false of other nodes
C11_Witness ==
  /\ toggleCount = 1
  /\ lastToggled \notin SeqToSet(ForestIds(orgTree))
  /\ lastToggled \in DOMAIN expandState
  /\ expandState[lastToggled] = FALSE
  /\ \E x, y \in DOMAIN expandState \ {lastToggled} :
       expandState[x] = TRUE /\ expandState[y] = FALSE

\* C12 (as stated): for every forest built by buildOrgChart and every depth
\* d >= 0, expandToDepth(forest, d) has an entry for every node of the forest
\* and no other key, and the entry of a node is true exactly when the level
\* attribute of the node is below d.
C12_ExpandedIffLevelBelowDepth ==
  pc = "expandToDepth" =>
    /\ DOMAIN expandState = SeqToSet(ForestIds(forest))
    /\ \A id \in DOMAIN expandState :
         expandState[id] = (forest.nodes[id].level < expandDepth)

----------------------------------------------------------------------------
(* Claims about the visible nodes *)

\* number of parent links between a node of the forest and its root
RECURSIVE DistanceToRoot(_, _)
DistanceToRoot(f, id) ==
  IF id \in SeqToSet(f.rootNodes) THEN 0
  ELSE 1 + DistanceToRoot(f, f.nodes[id].parentId)

\* C13: getVisibleNodes(forest, expandToDepth(forest, d)) is the pre-order
\* list of exactly the nodes of the forest whose distance from their root is
\* at most d.
C13_VisibleToDepth ==
  pc = "expandToDepth" =>
    getVisibleNodes(forest, forest.rootNodes, expandState)
      = SelectSeq(ForestIds(forest),
                  LAMBDA id : DistanceToRoot(forest, id) <= expandDepth)

\* C13 witness: the chain A -> B -> C expanded to depth 1 shows [A, B]
C13_Witness ==
  /\ pc = "expandToDepth"
  /\ expandDepth = 1
  /\ users = << [fullName |-> NameA, manager |-> EmptyStr,
                 organizationUnit |-> EmptyStr, office |-> EmptyStr],
                [fullName |-> NameB, manager |-> NameA,
                 organizationUnit |-> EmptyStr, office |-> EmptyStr],
                [fullName |-> NameC, manager |-> NameB,
                 organizationUnit |-> EmptyStr, office |-> EmptyStr] >>
  /\ getVisibleNodes(forest, forest.rootNodes, expandState) = <<NameA, NameB>>

\* the proper ancestors of a node of the forest, along the parent links
RECURSIVE ProperAncestors(_, _)
ProperAncestors(f, id) ==
  IF id \in SeqToSet(f.rootNodes) THEN {}
  ELSE {f.nodes[id].parentId} \cup ProperAncestors(f, f.nodes[id].parentId)

\* m[a] is not false
NotFalse(m, a) == a \notin DOMAIN m \/ m[a] # FALSE

\* the nodes the component shows: getVisibleNodes(orgTree, expandState)
visibleNodes == getVisibleNodes(orgTree, orgTree.rootNodes, expandState)

\* C14: getVisibleNodes(forest, m) is the depth-first pre-order list (siblings
\* in children order) of exactly the nodes all of whose proper ancestors are
\* effectively expanded; every root is in it and no node is in it twice.
C14_VisibleIffAncestorsExpanded ==
  /\ visibleNodes
       = SelectSeq(ForestIds(orgTree),
                   LAMBDA id : \A a \in ProperAncestors(orgTree, id) :
                                 NotFalse(expandState, a))
  /\ \A i \in DOMAIN orgTree.rootNodes : orgTree.rootNodes[i] \in SeqToSet(visibleNodes)
  /\ \A i, j \in DOMAIN visibleNodes : visibleNodes[i] = visibleNodes[j] => i = j

\* C14 witness: a node is hidden although its parent is expanded, because a
\* further ancestor is collapsed, after two toggles
C14_Witness ==
  /\ toggleCount = 2
  /\ \E id \in SeqToSet(ForestIds(orgTree)) :
       /\ id \notin SeqToSet(visibleNodes)
       /\ NotFalse(expandState, orgTree.nodes[id].parentId)
       /\ \E a \in ProperAncestors(orgTree, id) : ~NotFalse(expandState, a)

\* C15: expandAll(forest) maps every node id of the forest explicitly to true
\* and has no other key; with that map getVisibleNodes returns every node of
\* the forest.
C15_ExpandAllShowsEveryNode ==
  pc = "expandAll" =>
    /\ DOMAIN expandState = SeqToSet(ForestIds(forest))
    /\ \A id \in DOMAIN expandState : expandState[id] = TRUE
    /\ LET visible == getVisibleNodes(forest, forest.rootNodes, expandState)
       IN /\ SeqToSet(visible) = SeqToSet(ForestIds(forest))
          /\ Len(visible) = Len(ForestIds(forest))

\* C15 witness: expandAll on a forest of three nodes with a node two links
\* below its root
C15_Witness ==
  /\ pc = "expandAll"
  /\ Cardinality(DOMAIN expandState) = 3
  /\ \E id \in DOMAIN expandState : DistanceToRoot(forest, id) = 2

\* C16: collapseAll(forest) maps every root to true and every other node to
\* false, the visible nodes are then exactly the roots and their direct
\* children, and the map equals expandToDepth(forest, 1).
C16_CollapseAllKeepsRootsOpen ==
  pc = "collapseAll" =>
    /\ DOMAIN expandState = SeqToSet(ForestIds(forest))
    /\ \A id \in DOMAIN expandState :
         expandState[id] = (id \in SeqToSet(forest.rootNodes))
    /\ SeqToSet(getVisibleNodes(forest, forest.rootNodes, expandState))
         = {id \in SeqToSet(ForestIds(forest)) :
              \/ id \in SeqToSet(forest.rootNodes)
              \/ forest.nodes[id].parentId \in SeqToSet(forest.rootNodes)}
    /\ expandState = expandToDepth(forest, 1)

\* C16 witness: collapseAll on a forest with a root, a child of it that is
\* shown and a grandchild that is hidden
C16_Witness ==
  /\ pc = "collapseAll"
  /\ \E id \in DOMAIN expandState : DistanceToRoot(forest, id) = 2
  /\ Len(getVisibleNodes(forest, forest.rootNodes, expandState)) = 2

----------------------------------------------------------------------------
(* Claims about the descendant counts *)

\* the nodes of the forest strictly below a node, along the parent links
DescendantsOf(f, id) ==
  {x \in SeqToSet(ForestIds(f)) : id \in ProperAncestors(f, x)}

\* C17: getDescendantCount(node) is the number of nodes of the subtree of
\* node minus 1, and no toggle, expandAll, collapseAll or expandToDepth
\* operation on the expand map changes its value for any node.
C17_DescendantCountIsStatic ==
  /\ [](\A id \in SeqToSet(ForestIds(orgTree)) :
          /\ getDescendantCount(orgTree, id) = Cardinality(DescendantsOf(orgTree, id))
          /\ getNodeDescendantCount(orgTree, id) = getDescendantCount(orgTree, id))
  /\ [][\A id \in ToggleIds :
          getNodeDescendantCount(orgTree', id) = getNodeDescendantCount(orgTree, id)
       ]_vars

\* C17 witness: after two toggles a collapsed node has two descendants, none
\* of them shown
C17_Witness ==
  /\ toggleCount = 2
  /\ \E id \in SeqToSet(ForestIds(orgTree)) :
       /\ ~NotFalse(expandState, id)
       /\ getNodeDescendantCount(orgTree, id) = 2
       /\ DescendantsOf(orgTree, id) \cap SeqToSet(visibleNodes) = {}

\* no node of S that has children is collapsed in m
NoParentCollapsed(f, m, S) ==
  \A x \in S : f.nodes[x].children # <<>> => NotFalse(m, x)

\* C18 (as stated): for every node and every reachable expand map m,
\* getVisibleDescendantCount(node, m) is the length of
\* getVisibleNodes([node], m) minus 1; it is 0 when the node is collapsed, it
\* never exceeds getDescendantCount(node), and it equals
\* getDescendantCount(node) when no descendant with children is collapsed.
C18_VisibleCountFullUnlessDescendantCollapsed ==
  \A id \in SeqToSet(ForestIds(orgTree)) :
    LET count == getVisibleDescendantCount(orgTree, expandState, id)
    IN /\ count = Len(getVisibleNodes(orgTree, <<id>>, expandState)) - 1
       /\ ~NotFalse(expandState, id) => count = 0
       /\ count <= getDescendantCount(orgTree, id)
       /\ NoParentCollapsed(orgTree, expandState, DescendantsOf(orgTree, id))
            => count = getDescendantCount(orgTree, id)

\* C18 (amended): as above, but the count equals getDescendantCount(node)
\* when neither the node itself nor any descendant with children is
\* collapsed.
C18_VisibleCountFullUnlessSubtreeCollapsed ==
  \A id \in SeqToSet(ForestIds(orgTree)) :
    LET count == getVisibleDescendantCount(orgTree, expandState, id)
    IN /\ count = Len(getVisibleNodes(orgTree, <<id>>, expandState)) - 1
       /\ count = getNodeVisibleDescendantCount(orgTree, expandState, id)
       /\ ~NotFalse(expandState, id) => count = 0
       /\ count <= getDescendantCount(orgTree, id)
       /\ NoParentCollapsed(orgTree, expandState, DescendantsOf(orgTree, id) \cup {id})
            => count = getDescendantCount(orgTree, id)

\* C18 witness: after two toggles a node with two descendants is collapsed
\* while no descendant with children is, and its visible count is 0
C18_Witness ==
  /\ toggleCount = 2
  /\ \E id \in SeqToSet(ForestIds(orgTree)) :
       /\ ~NotFalse(expandState, id)
       /\ NoParentCollapsed(orgTree, expandState, DescendantsOf(orgTree, id))
       /\ getDescendantCount(orgTree, id) = 2
       /\ getVisibleDescendantCount(orgTree, expandState, id) = 0
       /\ \E x \in DescendantsOf(orgTree, id) : orgTree.nodes[x].children # <<>>

----------------------------------------------------------------------------
(* Claims about the filter *)

\* a node satisfies every active criterion
MatchesCriteria(node, c) ==
  /\ c.maxLevel # NoMaxLevel => node.level < c.maxLevel
  /\ c.orgUnits # <<>> => node.user.organizationUnit \in SeqToSet(c.orgUnits)
  /\ c.offices # <<>> => node.user.office \in SeqToSet(c.offices)

\* the nodes of the input forest that match the criteria
MatchingNodes(f, c) ==
  {id \in SeqToSet(ForestIds(f)) : MatchesCriteria(f.nodes[id], c)}

\* the elements of seq that are in S, in the order of seq
Restrict(seq, S) == SelectSeq(seq, LAMBDA x : x \in S)

\* C19: with at least one criterion active, a node of the input forest is in
\* the filtered tree exactly when it matches or a descendant of it matches;
\* so every ancestor of a matching node is retained; a retained node has the
\* parent it had, and the children of a retained node (and the roots) are the
\* retained ones of the input, in their input order.
C19_RetainedIffMatchBelow ==
  (pc = "filterOrgTree" /\ ~NoFilterActive(filters)) =>
    LET out == filterResult.filteredTree
        retained == SeqToSet(ForestIds(out))
        matching == MatchingNodes(forest, filters)
    IN /\ retained = {id \in SeqToSet(ForestIds(forest)) :
                        \/ id \in matching
                        \/ DescendantsOf(forest, id) \cap matching # {}}
       /\ \A id \in matching : ProperAncestors(forest, id) \subseteq retained
       /\ out.rootNodes = Restrict(forest.rootNodes, retained)
       /\ \A id \in retained :
            /\ out.nodes[id].parentId = forest.nodes[id].parentId
            /\ out.nodes[id].children = Restrict(forest.nodes[id].children, retained)
       /\ Len(ForestIds(out)) = Cardinality(retained)

\* C19 witness: the chain A (Sales) -> B (Eng) -> C (Eng) filtered by the
\* organization unit Eng keeps A as an ancestor, B and C
C19_Witness ==
  /\ pc = "filterOrgTree"
  /\ filters = [orgUnits |-> <<Eng>>, offices |-> <<>>, maxLevel |-> NoMaxLevel]
  /\ users = << [fullName |-> NameA, manager |-> EmptyStr,
                 organizationUnit |-> Sales, office |-> EmptyStr],
                [fullName |-> NameB, manager |-> NameA,
                 organizationUnit |-> Eng, office |-> NYC],
                [fullName |-> NameC, manager |-> NameB,
                 organizationUnit |-> Eng, office |-> NYC] >>
  /\ ForestIds(filterResult.filteredTree) = <<NameA, NameB, NameC>>
  /\ filterResult.matchCount = 2

\* C20: filterOrgTree returns totalCount = the number of nodes of the input
\* forest and matchCount = the number of them that match the criteria
\* directly, so matchCount <= totalCount and matchCount <= the number of
\* nodes of filteredTree.
C20_CountsOfFilter ==
  pc = "filterOrgTree" =>
    /\ filterResult.totalCount = Len(ForestIds(forest))
    /\ filterResult.matchCount = Cardinality(MatchingNodes(forest, filters))
    /\ filterResult.matchCount <= filterResult.totalCount
    /\ filterResult.matchCount <= Len(ForestIds(filterResult.filteredTree))

\* C20 witness: a filter under which a node is kept only as an ancestor and
\* another node is pruned: matchCount < nodes of filteredTree < totalCount
C20_Witness ==
  /\ pc = "filterOrgTree"
  /\ filterResult.matchCount > 0
  /\ filterResult.matchCount < Len(ForestIds(filterResult.filteredTree))
  /\ Len(ForestIds(filterResult.filteredTree)) < filterResult.totalCount

\* C21: with all criteria empty, filterOrgTree returns the input forest
\* itself (same roots, same nodes) and matchCount = totalCount = the number
\* of nodes of the forest.
C21_PassThrough ==
  (pc = "filterOrgTree" /\ filters = EmptyFilters) =>
    /\ filterResult.filteredTree = forest
    /\ filterResult.totalCount = Len(ForestIds(forest))
    /\ filterResult.matchCount = filterResult.totalCount

\* C21 witness: the empty criteria applied to a forest of three nodes, one of
\* them two links below its root
C21_Witness ==
  /\ pc = "filterOrgTree"
  /\ filters = EmptyFilters
  /\ filterResult.totalCount = 3
  /\ \E id \in SeqToSet(ForestIds(forest)) : DistanceToRoot(forest, id) = 2

\* C22: with at least one criterion active, doesNodeMatchFilter(node, C) holds
\* exactly when (maxLevel is null or node.level < maxLevel) and (orgUnits is
\* empty or the node's organization unit is in it) and (offices is empty or
\* the node's office is in it), also for nodes whose organization unit or
\* office is the empty string.
C22_MatchIffEveryCriterion ==
  (pc = "filterOrgTree" /\ ~NoFilterActive(filters)) =>
    \A id \in SeqToSet(ForestIds(forest)) :
      doesNodeMatchFilter(forest.nodes[id], filters)
        <=> MatchesCriteria(forest.nodes[id], filters)

\* C22 witness: under an active office criterion a node without office does
\* not match while a node with the office does
C22_Witness ==
  /\ pc = "filterOrgTree"
  /\ filters.offices = <<NYC>>
  /\ \E x, y \in SeqToSet(ForestIds(forest)) :
       /\ forest.nodes[x].user.office = EmptyStr
       /\ ~doesNodeMatchFilter(forest.nodes[x], filters)
       /\ forest.nodes[y].user.office = NYC
       /\ doesNodeMatchFilter(forest.nodes[y], filters)

----------------------------------------------------------------------------
(* Claims about the lookups *)

\* C24: for an id that names no node of the current forest, findNode returns
\* null, getNodePath the empty list, getNodeDescendantCount and
\* getDirectChildCount 0, hasChildren false, and a toggle of the id gives a
\* map that has the id and changes the entry of no other id.
C24_LookupMiss ==
  \A id \in ToggleIds \ SeqToSet(ForestIds(orgTree)) :
    /\ findNode(orgTree, id) = Null
    /\ getNodePath(orgTree, id) = <<>>
    /\ getNodeDescendantCount(orgTree, id) = 0
    /\ getDirectChildCount(orgTree, id) = 0
    /\ hasChildren(orgTree, id) = FALSE
    /\ LET toggled == toggleNodeExpansion(expandState, id)
       IN /\ id \in DOMAIN toggled
          /\ DOMAIN toggled \ {id} = DOMAIN expandState \ {id}
          /\ \A x \in DOMAIN expandState \ {id} : toggled[x] = expandState[x]

\* C24 witness: the name of a record that is not in the forest was toggled;
\* the forest has a node with a child and the map has got the stale key
C24_Witness ==
  /\ toggleCount = 1
  /\ lastToggled \in NameSet(users) \ SeqToSet(ForestIds(orgTree))
  /\ lastToggled \in DOMAIN expandState
  /\ \E id \in SeqToSet(ForestIds(orgTree)) : hasChildren(orgTree, id)
  /\ getNodePath(orgTree, lastToggled) = <<>>

\* C25: for every id of a node of the forest, getNodePath(forest, id) starts
\* at a root, ends at the node, each element is the parent of the next, its
\* length is the depth of the node plus 1, and findNode(forest, id) is the
\* node with that id.
C25_PathFromRoot ==
  pc = "buildOrgChart" =>
    \A id \in SeqToSet(ForestIds(forest)) :
      LET path == getNodePath(forest, id)
      IN /\ path # <<>>
         /\ path[1] \in SeqToSet(forest.rootNodes)
         /\ path[Len(path)] = id
         /\ \A i \in 1..(Len(path) - 1) :
              /\ forest.nodes[path[i + 1]].parentId = path[i]
              /\ path[i + 1] \in SeqToSet(forest.nodes[path[i]].children)
         /\ Len(path) = DistanceToRoot(forest, id) + 1
         /\ findNode(forest, id) = id
         /\ forest.nodes[findNode(forest, id)].id = id

\* C25 witness: a forest in which the path of a node has three elements
C25_Witness ==
  /\ pc = "buildOrgChart"
  /\ \E id \in SeqToSet(ForestIds(forest)) :
       /\ Len(getNodePath(forest, id)) = 3
       /\ getNodePath(forest, id)[3] = id

----------------------------------------------------------------------------
(* Claims about the mounted component *)

C30_ActiveForestFollowsFocus ==
  LET active == ActiveForest(orgTree, focusedNodeId)
  IN /\ focusedNodeId \in SeqToSet(ForestIds(orgTree)) =>
          /\ active.rootNodes = <<findNode(orgTree, focusedNodeId)>>
          /\ active.rootNodes = <<focusedNodeId>>
          /\ active.nodes[focusedNodeId] = orgTree.nodes[focusedNodeId]
          /\ active.nodes[focusedNodeId].level = orgTree.nodes[focusedNodeId].level
     /\ focusedNodeId \notin SeqToSet(ForestIds(orgTree)) =>
          active.rootNodes = orgTree.rootNodes
     /\ filterResult = filterOrgTree(active, filters)
     /\ NoFilterActive(filters) => filterResult.filteredTree.rootNodes = active.rootNodes

\* the focus is on a node one step below a root and nothing is filtered
C30_Witness ==
  /\ pc = "rendered"
  /\ Truthy(focusedNodeId)
  /\ focusedNodeId \in SeqToSet(ForestIds(orgTree))
  /\ orgTree.nodes[focusedNodeId].level = 1
  /\ orgTree.rootNodes # <<focusedNodeId>>
  /\ filterResult.filteredTree.rootNodes = <<focusedNodeId>>

\* C26: when the record list changes, the visible-node list is never computed
\* from the newly built forest paired with the expand map of the previous
\* forest: in the render that follows the change, the visible nodes are those
\* of the new forest under its own default expand map
C26_VisibleNeverFromStaleMap ==
  pc = "effectPending" =>
    visibleNodes = getVisibleNodes(orgTree, orgTree.rootNodes,
                                   expandToDepth(orgTree, expandDepth))

\* C27: whenever the record list changes and the forest is rebuilt, the
\* expand map eventually becomes expandToDepth(newForest, initialExpandDepth):
\* the effect runs, and the step that runs it leaves exactly that map,
\* whatever toggles and expand-all/collapse-all were applied before
C27_ExpandMapEventuallyReset ==
  /\ [](pc = "effectPending" =>
          <>(pc = "rendered" /\ expandState = expandToDepth(orgTree, expandDepth)))
  /\ [][(pc = "effectPending" /\ pc' = "rendered") =>
          /\ orgTree' = orgTree
          /\ expandState' = expandToDepth(orgTree', expandDepth')]_vars

\* after a replacement the map is the default of the new forest, in which the
\* node toggled (collapsed) before the replacement is expanded again
C27_Witness ==
  /\ pc = "rendered"
  /\ datasetChanges = 1
  /\ lastToggled \in SeqToSet(orgTree.rootNodes)
  /\ orgTree.nodes[lastToggled].children # <<>>
  /\ expandState = expandToDepth(orgTree, expandDepth)
  /\ IsExpanded(expandState, lastToggled)

\* the handlers of the expand map named by C28
C28_ExpandStep ==
  \/ \E nodeId \in Names : OnToggleExpand(nodeId)
  \/ ExpandAllNodes
  \/ CollapseAllNodes

\* the handlers of the focus pointer and of the filter criteria named by C28
C28_FocusOrFilterStep ==
  \/ \E nodeId \in Names : HandleFocus(nodeId)
  \/ \E nodeId \in Names \cup {Null} : HandleBreadcrumbNavigate(nodeId)
  \/ ClearFocus
  \/ \E c \in ChartFilterChoices : SetFilters(c)

\* C28: toggleExpansion, expandAllNodes and collapseAllNodes leave the focus
\* pointer and the filter criteria unchanged; handleFocus, breadcrumb
\* navigation, clearFocus and a change of the filter criteria leave the expand
\* map unchanged; no step between two dataset replacements changes both
C28_ExpandIndependentOfFocusAndFilter ==
  [][/\ C28_ExpandStep => (focusedNodeId' = focusedNodeId /\ filters' = filters)
     /\ C28_FocusOrFilterStep => expandState' = expandState
     /\ (pc = "rendered" /\ pc' = "rendered" /\ expandState' # expandState) =>
          (focusedNodeId' = focusedNodeId /\ filters' = filters)]_vars

\* a focus and a filter are set and the expand map was changed by a toggle
C28_Witness ==
  /\ pc = "rendered"
  /\ Truthy(focusedNodeId)
  /\ filters.maxLevel # NoMaxLevel
  /\ Truthy(lastToggled)
  /\ expandState # expandToDepth(orgTree, expandDepth)

\* C29: when the record list is replaced by a different dataset, the focus
\* pointer and the filter criteria are cleared: in the render of the new
\* dataset the focus is none and no criterion is set
C29_DatasetChangeClearsFocusAndFilters ==
  [][users' # users => (focusedNodeId' = Null /\ filters' = EmptyFilters)]_vars

----------------------------------------------------------------------------
(* Claims about termination and order *)

\* C36: detectCircularRefs, categorizeMappedUsers and buildOrgChart terminate
\* on every record list, whatever self-references, mutual references and
\* chains it holds: each call returns a result on every list, the cycle-detection
\* walk enters each record exactly once (so never more than once), the queue
\* loop of the categorizer makes at most two passes per record, and
\* sortChildren is applied to each node of the forest at most once
C36_WalksTerminate ==
  /\ pc = "ready" =>
       /\ Len(detectCircularRefs(users)) <= Len(users)
       /\ Len(categorizeMappedUsers(users).mappedUsers) <= Len(users)
       /\ Len(ForestIds(buildOrgChart(users))) <= Len(users)
  /\ pc = "detectCircularRefs" =>
       LET st == detectCircularRefsState(users)
       IN /\ cycles = st.cycles
          /\ st.inStack = {}
          /\ SeqToSet(st.walk) = NameSet(users)
          /\ \A n \in NameSet(users) : Occurrences(st.walk, n) = 1
  /\ pc = "categorizeMappedUsers" =>
       /\ BfsPasses(users, mapping.trueRoots, {}) <= 2 * Len(users)
       /\ Len(mapping.mappedUsers) <= Len(users)
  /\ pc = "buildOrgChart" =>
       /\ Len(ForestIds(forest)) <= Len(users)
       /\ \A n \in NameSet(users) : Occurrences(ForestIds(forest), n) <= 1

\* the walk returned on a list with a mutual reference and a record whose
\* manager chain leads into it
C36_Witness ==
  /\ pc = "detectCircularRefs"
  /\ Len(users) = 3
  /\ Len(cycles) = 1
  /\ \E i, j, k \in DOMAIN users :
       /\ i # j /\ j # k /\ i # k
       /\ users[i].manager = users[j].fullName
       /\ users[j].manager = users[i].fullName
       /\ users[k].manager = users[i].fullName
       /\ k < i /\ k < j

\* the position of the record named name in the list us
PositionOf(us, name) == CHOOSE i \in DOMAIN us : us[i].fullName = name

\* C37: in every forest returned by buildOrgChart the children list of every
\* node is in ascending order of the names (localeCompare), and the root list
\* holds the roots in the order in which their records appear in the input
C37_ChildrenSortedRootsInInputOrder ==
  pc = "buildOrgChart" =>
    /\ \A id \in SeqToSet(ForestIds(forest)) :
         LET ch == forest.nodes[id].children
         IN \A i, j \in DOMAIN ch : i < j => localeCompare(ch[i], ch[j]) < 0
    /\ \A i, j \in DOMAIN forest.rootNodes :
         i < j => PositionOf(users, forest.rootNodes[i])
                    < PositionOf(users, forest.rootNodes[j])

\* two children whose records appear in the input in descending order
C37_Witness ==
  /\ pc = "buildOrgChart"
  /\ \E id \in SeqToSet(ForestIds(forest)) :
       LET ch == forest.nodes[id].children
       IN /\ Len(ch) = 2
          /\ PositionOf(users, ch[1]) > PositionOf(users, ch[2])

\* C38: the forest built from categorizeMappedUsers(users).mappedUsers holds
\* every mapped record exactly once and nothing else, its roots are the true
\* roots in input order, no unmapped record and no record on a manager cycle
\* is in it, mappedUsers and unmappedUsers are disjoint and trueRoots is a
\* part of mappedUsers
C38_RenderedForestIsMappedUsers ==
  pc = "rendered" =>
    LET ids == ForestIds(orgTree)
    IN /\ \A n \in SeqToSet(NamesOf(mapping.mappedUsers)) : Occurrences(ids, n) = 1
       /\ SeqToSet(ids) \subseteq SeqToSet(NamesOf(mapping.mappedUsers))
       /\ orgTree.rootNodes = NamesOf(mapping.trueRoots)
       /\ SeqToSet(ids) \cap SeqToSet(NamesOf(mapping.unmappedUsers)) = {}
       /\ \A n \in SeqToSet(ids) : ~OnManagerCycle(users, n)
       /\ SeqToSet(NamesOf(mapping.mappedUsers))
            \cap SeqToSet(NamesOf(mapping.unmappedUsers)) = {}
       /\ SeqToSet(NamesOf(mapping.trueRoots))
            \subseteq SeqToSet(NamesOf(mapping.mappedUsers))

\* C39: filtering is idempotent: with at least one criterion active, the
\* filter of the filtered forest under the same criteria is the filtered
\* forest again (same roots, same copies with the same children) and counts
\* the same number of matches
C39_FilterIdempotent ==
  (pc = "filterOrgTree" /\ ~NoFilterActive(filters)) =>
    LET again == filterOrgTree(filterResult.filteredTree, filters)
    IN /\ again.filteredTree.rootNodes = filterResult.filteredTree.rootNodes
       /\ again.filteredTree.nodes = filterResult.filteredTree.nodes
       /\ again.matchCount = filterResult.matchCount

\* a filtered forest that keeps an ancestor that does not match and has lost
\* a branch
C39_Witness ==
  /\ pc = "filterOrgTree"
  /\ ~NoFilterActive(filters)
  /\ Len(ForestIds(filterResult.filteredTree)) < filterResult.totalCount
  /\ filterResult.matchCount < Len(ForestIds(filterResult.filteredTree))
  /\ filterOrgTree(filterResult.filteredTree, filters).totalCount < filterResult.totalCount

----------------------------------------------------------------------------
(* Claims about keyboard navigation *)

\* the state r that move-to-first-child leaves when invoked in this state
C31_MovesToChild(r) ==
  IF hasChildren(orgTree, selectedNodeId)
  THEN /\ IsExpanded(r.expandState, selectedNodeId)
       /\ r.selectedNodeId = selectedNodeId
       /\ Len(r.timers) = Len(timers) + 1
       /\ r.timers[Len(r.timers)].child =
            Head(orgTree.nodes[selectedNodeId].children)
  ELSE /\ r.selectedNodeId = selectedNodeId
       /\ r.expandState = expandState
       /\ r.timers = timers

\* C31: when move-to-first-child (ArrowRight or goToChild) is invoked on a
\* selected node with children, the node is effectively expanded afterwards
\* and a timer is set whose firing makes the first child of the node the
\* selection, which eventually happens; on a selected node without children
\* the selection and the expand map are unchanged
C31_MoveToFirstChild ==
  /\ [](pc = "rendered" /\ Truthy(selectedNodeId) =>
          /\ C31_MovesToChild(keyDown(orgTree, KeyState, "ArrowRight"))
          /\ C31_MovesToChild(MoveToChild(orgTree, KeyState, TRUE)))
  /\ [][TimerFires => selectedNodeId' = Head(timers).child]_vars
  /\ \A n \in Names :
       (timers # <<>> /\ Head(timers).child = n) ~> (selectedNodeId = n)

\* right after ArrowRight on a node that the default map has collapsed: the
\* node is expanded and its timer is pending
C31_Witness ==
  /\ timers # <<>>
  /\ Head(timers).nodeId = selectedNodeId
  /\ hasChildren(orgTree, selectedNodeId)
  /\ ~IsExpanded(expandToDepth(orgTree, expandDepth), selectedNodeId)
  /\ IsExpanded(expandState, selectedNodeId)

\* the parent of a node of forest f: none for a root of f
C32_Parent(f, id) ==
  IF id \in SeqToSet(f.rootNodes) THEN Null
  ELSE CHOOSE p \in SeqToSet(ForestIds(f)) : id \in SeqToSet(f.nodes[p].children)

\* the siblings of a node of forest f, itself included, in their order
C32_Siblings(f, id) ==
  IF C32_Parent(f, id) = Null THEN f.rootNodes
  ELSE f.nodes[C32_Parent(f, id)].children

C32_Place(f, id) ==
  CHOOSE i \in DOMAIN C32_Siblings(f, id) : C32_Siblings(f, id)[i] = id

\* the forest in which the selected node has its siblings: the active forest
\* when it holds the node, else the full forest
C32_Around ==
  IF selectedNodeId \in SeqToSet(ForestIds(ActiveForest(orgTree, focusedNodeId)))
  THEN ActiveForest(orgTree, focusedNodeId)
  ELSE orgTree

\* the cells other than the selection are as they were
C32_OnlySelectionMay(st) ==
  st.expandState = expandState /\ st.focusedNodeId = focusedNodeId

\* what ArrowUp, ArrowDown, ArrowLeft and goToParent do to the selection
C32_MovesAsStated ==
  LET sibs == C32_Siblings(C32_Around, selectedNodeId)
      place == C32_Place(C32_Around, selectedNodeId)
      parent == C32_Parent(C32_Around, selectedNodeId)
      up == keyDown(orgTree, KeyState, "ArrowUp")
      down == keyDown(orgTree, KeyState, "ArrowDown")
      left == keyDown(orgTree, KeyState, "ArrowLeft")
      button == goToParent(orgTree, KeyState)
  IN /\ up.selectedNodeId = IF place > 1 THEN sibs[place - 1] ELSE selectedNodeId
     /\ down.selectedNodeId = IF place < Len(sibs) THEN sibs[place + 1]
                              ELSE selectedNodeId
     /\ left.selectedNodeId = IF parent # Null THEN parent ELSE selectedNodeId
     /\ button.selectedNodeId = left.selectedNodeId
     /\ C32_OnlySelectionMay(up) /\ C32_OnlySelectionMay(down)
     /\ C32_OnlySelectionMay(left) /\ C32_OnlySelectionMay(button)

C33_EscapeClears ==
  (pc = "rendered" /\ Truthy(selectedNodeId)) =>
    LET once == keyDown(orgTree, KeyState, "Escape")
        twice == keyDown(orgTree, once, "Escape")
    IN /\ IF Truthy(focusedNodeId)
          THEN once.focusedNodeId = Null /\ once.selectedNodeId = selectedNodeId
          ELSE once.selectedNodeId = Null /\ ~once.isKeyboardActive
       /\ twice.focusedNodeId = Null /\ twice.selectedNodeId = Null
       /\ once.expandState = expandState /\ twice.expandState = expandState

\* C40: once Escape has cleared the selection, no timer callback sets it
\* again: a pending first-child timer leaves an empty selection empty
C40_TimerKeepsClearedSelection ==
  [][(TimerFires /\ selectedNodeId = Null) => selectedNodeId' = Null]_vars

----------------------------------------------------------------------------
(* Claims about the search selection and the full reset *)

\* C34: after a search selection of a name that is a node of the full forest,
\* from any expand map and focus, the focus pointer is none, every node on the
\* path from the root to the node is effectively expanded, the node is among
\* the visible nodes of the full forest, and the keyboard selection and the
\* highlight are the id of the node
C34_SearchSelectShowsNode ==
  pc = "rendered" =>
    \A userId \in SeqToSet(ForestIds(orgTree)) :
      LET after == handleSearchSelect(orgTree, SearchState, userId)
      IN /\ after.focusedNodeId = Null
         /\ \A p \in SeqToSet(getNodePath(orgTree, userId)) :
              IsExpanded(after.expandState, p)
         /\ userId \in SeqToSet(getVisibleNodes(orgTree, orgTree.rootNodes,
                                                after.expandState))
         /\ after.selectedNodeId = userId
         /\ after.highlightedUserId = userId

\* a node below a root has been chosen in the search box and its centring
\* timer is pending; the expand map is not the default one
C34_Witness ==
  /\ pc = "rendered"
  /\ centerTimers # <<>>
  /\ Truthy(highlightedUserId)
  /\ selectedNodeId = highlightedUserId
  /\ Len(getNodePath(orgTree, highlightedUserId)) > 1
  /\ focusedNodeId = Null
  /\ expandState # expandToDepth(orgTree, expandDepth)

\* C35: after handleFullReset, from any view state, the focus pointer is
\* none, the filter criteria are empty, the highlight and the keyboard
\* selection are none, the zoom is 70, the pan is (0, 0) and the expand map
\* is expandToDepth(forest, initialExpandDepth), as right after the first
\* mount with the same dataset; the layout mode, the view mode and the card
\* size are unchanged
C35_FullResetRestoresMountView ==
  pc = "rendered" =>
    LET after == handleFullReset(orgTree, expandDepth, SearchState)
    IN /\ after.focusedNodeId = Null
       /\ after.filters = [orgUnits |-> <<>>, offices |-> <<>>, maxLevel |-> NoMaxLevel]
       /\ after.highlightedUserId = Null
       /\ after.selectedNodeId = Null
       /\ after.zoomLevel = 70
       /\ after.panPosition = [x |-> 0, y |-> 0]
       /\ after.expandState = expandToDepth(RenderedTree(users), InitialExpandDepth)
       /\ after.layoutMode = layoutMode
       /\ after.viewMode = viewMode
       /\ after.cardSizeMode = cardSizeMode

\* the reset button has been pressed after a search selection whose timer is
\* still pending and after the display modes were changed: the view is the
\* one of the first mount, the modes are kept
C35_Witness ==
  /\ pc = "rendered"
  /\ centerTimers # <<>>
  /\ selectedNodeId = Null /\ highlightedUserId = Null
  /\ focusedNodeId = Null /\ filters = EmptyFilters
  /\ zoomLevel = DefaultZoom /\ panPosition = Origin
  /\ expandState = expandToDepth(orgTree, expandDepth)
  /\ layoutMode = "radial" /\ viewMode = "unmapped" /\ cardSizeMode = "compact"

====
